---- MODULE Spec2Model ----
(***************************************************************************)
(* GLB Extractor Tool: the per-material pruning pipeline                   *)
(* (createGLBForMaterial), the sanitizer (sanitizeGLTF / cleanupObject)    *)
(* and the batch loop of processFile.                                      *)
(*                                                                         *)
(* Conventions of the model                                                *)
(*  - every index stored in a document is the 0-based JavaScript index;    *)
(*    a sequence s is read at index i as s[i + 1];                         *)
(*  - Undef stands for JavaScript `undefined` in a numeric field (a key    *)
(*    that is missing, or an array element that is undefined / a hole,     *)
(*    which JSON.stringify writes as null);                                *)
(*  - an optional list-valued field (children, scene.nodes, attributes)    *)
(*    is the empty sequence when the key is missing: the code treats a     *)
(*    missing key and an empty array alike and removes the empty array;    *)
(*  - a top-level array of the document is present iff its key is in the   *)
(*    document's `has` set;                                                *)
(*  - a name is a sequence of strings, so that template strings are        *)
(*    concatenations.                                                      *)
(***************************************************************************)
EXTENDS Integers, Sequences, FiniteSets, TLC

Undef == -1

(***************************************************************************)
(* Bounds of the explored inputs.                                          *)
(***************************************************************************)
MaxNodes == 2
MaxEdges == 2
MaxMeshes == 3
MaxViews == 2

(***************************************************************************)
(* Generic helpers.                                                        *)
(***************************************************************************)
At(s, i) == s[i + 1]

InRange(s, i) == i >= 0 /\ i < Len(s)

Range(s) == {s[k] : k \in 1..Len(s)}

Contains(s, x) == \E k \in 1..Len(s) : s[k] = x

\* Set.add on an insertion-ordered JavaScript Set
SetAdd(s, x) == IF Contains(s, x) THEN s ELSE Append(s, x)

\* position (0-based) of x in the insertion order of s; Undef when absent
IndexOf(s, x) ==
  IF Contains(s, x) THEN (CHOOSE k \in 1..Len(s) : s[k] = x) - 1 ELSE Undef

Digit(i) == <<"0", "1", "2", "3", "4", "5", "6", "7", "8", "9">>[i + 1]

\* ascending sequence of a finite set of integers
RECURSIVE SortedSeq(_)
SortedSeq(S) ==
  IF S = {} THEN <<>>
  ELSE LET x == CHOOSE y \in S : \A z \in S : y <= z
       IN <<x>> \o SortedSeq(S \ {x})

RECURSIVE SeqsUpTo(_, _)
SeqsUpTo(S, n) ==
  IF n = 0 THEN {<<>>}
  ELSE LET shorter == SeqsUpTo(S, n - 1)
       IN shorter \cup {Append(s, x) : s \in {t \in shorter : Len(t) = n - 1}, x \in S}

(***************************************************************************)
(* Objects of a glTF document.                                             *)
(***************************************************************************)
Primitive(material, attributes, indices, mode) ==
  [material |-> material, attributes |-> attributes, indices |-> indices, mode |-> mode]

Mesh(name, primitives) == [name |-> name, primitives |-> primitives]

Node(name, mesh, children) == [name |-> name, mesh |-> mesh, children |-> children]

Scene(name, nodes) == [name |-> name, nodes |-> nodes]

Accessor(name, bufferView) == [name |-> name, bufferView |-> bufferView]

BufferView(buffer, byteOffset, byteLength) ==
  [buffer |-> buffer, byteOffset |-> byteOffset, byteLength |-> byteLength]

Material(name, baseColorTexture, extensions, baseColorFactor) ==
  [name |-> name, baseColorTexture |-> baseColorTexture,
   extensions |-> extensions, baseColorFactor |-> baseColorFactor]

\* the object {} (and, after cleanupObject, the hole it leaves in its array)
EmptyAccessor == Accessor(<<>>, Undef)
EmptyBufferView == BufferView(Undef, Undef, Undef)
EmptyScene == Scene(<<>>, <<>>)

(***************************************************************************)
(* generateColorFromIndex: HSL -> RGB with saturation 0.75, lightness 0.6. *)
(* Colours are in thousandths, the hue in half degrees, so that the        *)
(* arithmetic of the source is exact over the integers:                    *)
(*   c = (1 - |2*0.6 - 1|) * 0.75 = 0.6,  m = 0.6 - c/2 = 0.3,             *)
(*   x = c * (1 - |((hue/60) % 2) - 1|).                                   *)
(***************************************************************************)
Abs(x) == IF x < 0 THEN -x ELSE x

generateColorFromIndex(index) ==
  LET hue2 == (index * 275) % 720
      c == 600
      x == 600 - 5 * Abs((hue2 % 240) - 120)
      m == 300
      rgb == IF hue2 < 120 THEN <<c, x, 0>>
             ELSE IF hue2 < 240 THEN <<x, c, 0>>
             ELSE IF hue2 < 360 THEN <<0, c, x>>
             ELSE IF hue2 < 480 THEN <<0, x, c>>
             ELSE IF hue2 < 600 THEN <<x, 0, c>>
             ELSE <<c, 0, x>>
  IN <<rgb[1] + m, rgb[2] + m, rgb[3] + m, 1000>>

(***************************************************************************)
(* createGLBForMaterial, lines 184-201: the synthetic material.            *)
(***************************************************************************)
Has(gltf, key) == key \in gltf.has

MaterialNameOf(gltf, materialIndex) ==
  IF Has(gltf, "materials") /\ InRange(gltf.materials, materialIndex)
     /\ At(gltf.materials, materialIndex).name # <<>>
  THEN At(gltf.materials, materialIndex).name
  ELSE <<"material_", Digit(materialIndex)>>

simpleMaterial(materialName, materialIndex) ==
  Material(materialName, Undef, FALSE, generateColorFromIndex(materialIndex))

(***************************************************************************)
(* createGLBForMaterial, lines 203-258: the primitive and mesh filter.     *)
(***************************************************************************)
Indices(s) == [k \in 1..Len(s) |-> k - 1]

\* a filter that keeps every primitive that has a material
FilterPrimitivesAnyMaterial(primitives, materialIndex) ==
  SelectSeq(primitives, LAMBDA primitive : primitive.material # Undef)

FilterPrimitives(primitives, materialIndex) ==
  SelectSeq(primitives, LAMBDA primitive : primitive.material = materialIndex)

MeshIsKept(mesh, materialIndex) ==
  /\ mesh.primitives # <<>>
  /\ FilterPrimitives(mesh.primitives, materialIndex) # <<>>

keptMeshIndices(gltf, materialIndex) ==
  IF Has(gltf, "meshes")
  THEN SelectSeq(Indices(gltf.meshes),
                 LAMBDA meshIndex : MeshIsKept(At(gltf.meshes, meshIndex), materialIndex))
  ELSE <<>>

ResetMaterial(primitive) == [primitive EXCEPT !.material = 0]

FilteredMesh(mesh, materialIndex) ==
  LET kept == FilterPrimitives(mesh.primitives, materialIndex)
  IN [mesh EXCEPT !.primitives = [k \in 1..Len(kept) |-> ResetMaterial(kept[k])]]

FilterMeshes(gltf, materialIndex) ==
  LET kept == keptMeshIndices(gltf, materialIndex)
  IN [k \in 1..Len(kept) |-> FilteredMesh(At(gltf.meshes, kept[k]), materialIndex)]

\* usedAccessors after the forEach over one primitive (lines 230-243)
RECURSIVE AddAll(_, _)
AddAll(used, xs) ==
  IF xs = <<>> THEN used ELSE AddAll(SetAdd(used, Head(xs)), Tail(xs))

RecordPrimitive(used, primitive) ==
  LET withAttributes == AddAll(used, primitive.attributes)
  IN IF primitive.indices # Undef THEN SetAdd(withAttributes, primitive.indices)
     ELSE withAttributes

RECURSIVE RecordPrimitives(_, _)
RecordPrimitives(used, primitives) ==
  IF primitives = <<>> THEN used
  ELSE RecordPrimitives(RecordPrimitive(used, Head(primitives)), Tail(primitives))

RECURSIVE RecordMeshes(_, _)
RecordMeshes(used, meshes) ==
  IF meshes = <<>> THEN used
  ELSE RecordMeshes(RecordPrimitives(used, Head(meshes).primitives), Tail(meshes))

usedAccessors(gltf, materialIndex) ==
  IF Has(gltf, "meshes") THEN RecordMeshes(<<>>, FilterMeshes(gltf, materialIndex))
  ELSE <<>>

oldToNewMeshIndex(kept, oldIndex) == IndexOf(kept, oldIndex)

(***************************************************************************)
(* createGLBForMaterial, lines 264-291: the node closure.                  *)
(***************************************************************************)
ReferencesKeptMesh(node, kept) == node.mesh # Undef /\ Contains(kept, node.mesh)

\* first pass: nodes that directly reference a kept mesh
DirectNodes(nodes, kept) ==
  SelectSeq(Indices(nodes), LAMBDA nodeIndex : ReferencesKeptMesh(At(nodes, nodeIndex), kept))

HasKeptChild(node, keep) == \E k \in 1..Len(node.children) : Contains(keep, node.children[k])

\* one forEach over the nodes (lines 280-290); the Set grows during the scan
RECURSIVE ScanNodes(_, _, _)
ScanNodes(nodes, keep, nodeIndex) ==
  IF nodeIndex >= Len(nodes) THEN keep
  ELSE ScanNodes(nodes,
                 IF HasKeptChild(At(nodes, nodeIndex), keep) THEN SetAdd(keep, nodeIndex)
                 ELSE keep,
                 nodeIndex + 1)

\* a single scan in place of the loop
ParentLoopOnce(nodes, keep, previousSize) == ScanNodes(nodes, keep, 0)

\* the while loop of lines 276-291
RECURSIVE ParentLoop(_, _, _)
ParentLoop(nodes, keep, previousSize) ==
  IF previousSize = Len(keep) THEN keep
  ELSE ParentLoop(nodes, ScanNodes(nodes, keep, 0), Len(keep))

\* number of scans the while loop performs
RECURSIVE ParentLoopRounds(_, _, _)
ParentLoopRounds(nodes, keep, previousSize) ==
  IF previousSize = Len(keep) THEN 0
  ELSE 1 + ParentLoopRounds(nodes, ScanNodes(nodes, keep, 0), Len(keep))

SelectedNodes(nodes, kept) == ParentLoop(nodes, DirectNodes(nodes, kept), 0)

(***************************************************************************)
(* createGLBForMaterial, lines 293-339: fallback node, filter and remap.   *)
(***************************************************************************)
NeedsFallbackNode(selected, meshes) == Len(selected) = 0 /\ Len(meshes) > 0

FallbackNode(materialName) == Node(materialName \o <<"_node">>, 0, <<>>)

NodesWithFallback(nodes, selected, meshes, materialName) ==
  IF NeedsFallbackNode(selected, meshes) THEN Append(nodes, FallbackNode(materialName))
  ELSE nodes

nodesToKeep(nodes, selected, meshes) ==
  IF NeedsFallbackNode(selected, meshes) THEN <<Len(nodes)>> ELSE selected

\* oldToNewNodeIndex[child] while the node at position newIndex is being mapped:
\* only the entries of the positions 0..newIndex have been written so far
oldToNewNodeIndexAt(keep, newIndex, child) ==
  LET position == IndexOf(keep, child)
  IN IF position # Undef /\ position <= newIndex THEN position ELSE Undef

\* oldToNewNodeIndex once the map is complete
oldToNewNodeIndex(keep, oldIndex) == IndexOf(keep, oldIndex)

\* a remap that keeps the reference to a mesh that was filtered out
RemapMeshKeepingStale(mesh, kept) ==
  IF mesh # Undef /\ Contains(kept, mesh) THEN oldToNewMeshIndex(kept, mesh) ELSE mesh

RemapMesh(mesh, kept) ==
  IF mesh # Undef
  THEN IF Contains(kept, mesh) THEN oldToNewMeshIndex(kept, mesh) ELSE Undef
  ELSE Undef

RemapChildren(children, keep, newIndex) ==
  LET surviving == SelectSeq(children, LAMBDA child : Contains(keep, child))
  IN [k \in 1..Len(surviving) |-> oldToNewNodeIndexAt(keep, newIndex, surviving[k])]

filteredNodes(nodes, keep, kept) ==
  [position \in 1..Len(keep) |->
     LET node == At(nodes, keep[position])
     IN [node EXCEPT !.mesh = RemapMesh(node.mesh, kept),
                     !.children = RemapChildren(node.children, keep, position - 1)]]

(***************************************************************************)
(* createGLBForMaterial, lines 341-389: scenes.                            *)
(***************************************************************************)
\* Object.values(oldToNewNodeIndex): the integer keys come in ascending order
ObjectValues(keep) ==
  LET keys == SortedSeq(Range(keep))
  IN [k \in 1..Len(keys) |-> oldToNewNodeIndex(keep, keys[k])]

NewScene(keep) == Scene(<<>>, ObjectValues(keep))

RemapScene(scene, keep) ==
  IF scene.nodes = <<>> THEN Scene(<<>>, <<>>)
  ELSE LET surviving == SelectSeq(scene.nodes, LAMBDA nodeIndex : Contains(keep, nodeIndex))
       IN [scene EXCEPT !.nodes =
             [k \in 1..Len(surviving) |-> oldToNewNodeIndex(keep, surviving[k])]]

\* the map of lines 352-362 without the filter of line 363
UnfilteredScenes(scenes, keep) == [k \in 1..Len(scenes) |-> RemapScene(scenes[k], keep)]

UpdatedScenes(scenes, keep) ==
  SelectSeq([k \in 1..Len(scenes) |-> RemapScene(scenes[k], keep)],
            LAMBDA scene : Len(scene.nodes) > 0)

RewriteScenes(gltf, keep) ==
  IF ~Has(gltf, "scenes") \/ Len(gltf.scenes) = 0 THEN <<NewScene(keep)>>
  ELSE IF UpdatedScenes(gltf.scenes, keep) = <<>> THEN <<NewScene(keep)>>
  ELSE UpdatedScenes(gltf.scenes, keep)

\* lines 376-389: the document has no nodes array
BasicNodes(meshes, materialName) ==
  [k \in 1..Len(meshes) |-> Node(materialName \o <<"_node_", Digit(k - 1)>>, k - 1, <<>>)]

BasicScenes(nodes) == <<Scene(<<>>, Indices(nodes))>>

\* a deletion that forgets the samplers
DropTexturesButSamplers(gltf) ==
  [gltf EXCEPT !.has = @ \ {"textures", "images"}, !.textures = <<>>, !.images = <<>>]

\* lines 391-394
DropTextures(gltf) ==
  [gltf EXCEPT !.has = @ \ {"textures", "images", "samplers"},
               !.textures = <<>>, !.images = <<>>, !.samplers = <<>>]

\* lines 184-394 on the deep copy newGltf
PruneGraph(gltf, materialIndex) ==
  LET materialName == MaterialNameOf(gltf, materialIndex)
      kept == keptMeshIndices(gltf, materialIndex)
      meshes == FilterMeshes(gltf, materialIndex)
      g1 == [gltf EXCEPT !.has = @ \cup {"materials"},
                         !.materials = <<simpleMaterial(materialName, materialIndex)>>,
                         !.meshes = IF Has(gltf, "meshes") THEN meshes ELSE @]
      g2 == IF Has(g1, "nodes")
            THEN LET selected == SelectedNodes(g1.nodes, kept)
                     keep == nodesToKeep(g1.nodes, selected, g1.meshes)
                     nodes == NodesWithFallback(g1.nodes, selected, g1.meshes, materialName)
                 IN [g1 EXCEPT !.has = @ \cup {"scenes"},
                               !.nodes = filteredNodes(nodes, keep, kept),
                               !.scenes = RewriteScenes(g1, keep),
                               !.scene = 0]
            ELSE IF Has(g1, "meshes") /\ Len(g1.meshes) > 0
            THEN [g1 EXCEPT !.has = @ \cup {"nodes", "scenes"},
                            !.nodes = BasicNodes(g1.meshes, materialName),
                            !.scenes = BasicScenes(BasicNodes(g1.meshes, materialName)),
                            !.scene = 0]
            ELSE g1
  IN DropTextures(g2)

(***************************************************************************)
(* createGLBForMaterial, lines 396-433: accessors.                         *)
(***************************************************************************)
\* {...newGltf.accessors[oldIndex]}: the spread of undefined is {}
AccessorCopy(accessors, oldIndex) ==
  IF InRange(accessors, oldIndex) THEN At(accessors, oldIndex) ELSE EmptyAccessor

keptAccessors(accessors, used) ==
  [k \in 1..Len(used) |-> AccessorCopy(accessors, used[k])]

RECURSIVE RecordBufferViews(_, _)
RecordBufferViews(usedViews, accessors) ==
  IF accessors = <<>> THEN usedViews
  ELSE RecordBufferViews(
         IF Head(accessors).bufferView # Undef
         THEN SetAdd(usedViews, Head(accessors).bufferView) ELSE usedViews,
         Tail(accessors))

\* a remap that leaves the old index in place
StaleAccessorIndex(used, oldIndex) == oldIndex

oldToNewAccessorIndex(used, oldIndex) == IndexOf(used, oldIndex)

RemapPrimitive(primitive, used) ==
  [primitive EXCEPT
     !.attributes = [k \in 1..Len(@) |-> oldToNewAccessorIndex(used, @[k])],
     !.indices = IF @ # Undef THEN oldToNewAccessorIndex(used, @) ELSE @]

RemapMeshAccessors(meshes, used) ==
  [k \in 1..Len(meshes) |->
     [meshes[k] EXCEPT !.primitives =
        [j \in 1..Len(@) |-> RemapPrimitive(@[j], used)]]]

AccessorsArePruned(gltf, used) == Has(gltf, "accessors") /\ Len(used) > 0

PruneAccessors(gltf, used) ==
  IF AccessorsArePruned(gltf, used)
  THEN [gltf EXCEPT !.accessors = keptAccessors(gltf.accessors, used),
                    !.meshes = IF Has(gltf, "meshes") THEN RemapMeshAccessors(@, used) ELSE @]
  ELSE gltf

usedBufferViews(gltf, used) ==
  IF AccessorsArePruned(gltf, used)
  THEN RecordBufferViews(<<>>, keptAccessors(gltf.accessors, used))
  ELSE <<>>

(***************************************************************************)
(* createGLBForMaterial, lines 435-533: the buffer compactor.              *)
(* A binary chunk is [present, bytes]; null is [present |-> FALSE].        *)
(***************************************************************************)
NoBinary == [present |-> FALSE, bytes |-> <<>>]

Binary(bytes) == [present |-> TRUE, bytes |-> bytes]

Min(a, b) == IF a < b THEN a ELSE b

\* ArrayBuffer.prototype.slice(start, end): a negative index counts from the
\* end, both are clamped to the buffer, and an end before the start gives no byte
Slice(bytes, start, end) ==
  LET Clamp(i) == IF i < 0 THEN (IF Len(bytes) + i < 0 THEN 0 ELSE Len(bytes) + i)
                  ELSE Min(i, Len(bytes))
      from == Clamp(start)
      to == Clamp(end)
  IN [k \in 1..(to - from) |-> bytes[from + k]]

\* the byteOffset as written, without the default
ViewStartAsWritten(bufferView) == bufferView.byteOffset

\* const start = bufferView.byteOffset || 0
ViewStart(bufferView) == IF bufferView.byteOffset = Undef THEN 0 ELSE bufferView.byteOffset

ViewData(binaryChunk, bufferView) ==
  Slice(binaryChunk.bytes, ViewStart(bufferView), ViewStart(bufferView) + bufferView.byteLength)

\* the padding without its outer modulo: 4 bytes where none is needed
PaddingWithoutOuterModulo(totalLength) == 4 - (totalLength % 4)

AlignmentPadding(totalLength) == (4 - (totalLength % 4)) % 4

\* view.newOffset of the view at position k (1-based) of bufferViewDataArray
RECURSIVE NewOffset(_, _)
NewOffset(views, k) ==
  IF k = 1 THEN 0
  ELSE LET end == NewOffset(views, k - 1) + views[k - 1].byteLength
       IN end + AlignmentPadding(end)

TotalLength(views) ==
  IF views = <<>> THEN 0 ELSE NewOffset(views, Len(views)) + views[Len(views)].byteLength

CompactedView(views, k) == [views[k] EXCEPT !.byteOffset = NewOffset(views, k), !.buffer = 0]

\* newBinaryView after fill(0) and one set(view.data, view.newOffset) per view
NewBinaryBytes(binaryChunk, views) ==
  [p \in 1..TotalLength(views) |->
     IF \E k \in 1..Len(views) :
          /\ p > NewOffset(views, k)
          /\ p <= NewOffset(views, k) + Len(ViewData(binaryChunk, views[k]))
     THEN LET k == CHOOSE j \in 1..Len(views) :
                     /\ p > NewOffset(views, j)
                     /\ p <= NewOffset(views, j) + Len(ViewData(binaryChunk, views[j]))
                     /\ \A i \in 1..Len(views) :
                          (/\ p > NewOffset(views, i)
                           /\ p <= NewOffset(views, i) + Len(ViewData(binaryChunk, views[i])))
                          => i <= j
          IN ViewData(binaryChunk, views[k])[p - NewOffset(views, k)]
     ELSE 0]

oldToNewBufferViewIndex(usedViews, oldIndex) == IndexOf(usedViews, oldIndex)

RemapAccessor(accessor, usedViews) ==
  IF accessor.bufferView # Undef
  THEN [accessor EXCEPT !.bufferView = oldToNewBufferViewIndex(usedViews, accessor.bufferView)]
  ELSE accessor

IsCompacted(gltf, usedViews, binaryChunk) ==
  Has(gltf, "bufferViews") /\ Len(usedViews) > 0 /\ binaryChunk.present

BufferViewCopy(bufferViews, oldIndex) ==
  IF InRange(bufferViews, oldIndex) THEN At(bufferViews, oldIndex) ELSE EmptyBufferView

Compact(gltf, usedViews, binaryChunk) ==
  LET views == [k \in 1..Len(usedViews) |-> BufferViewCopy(gltf.bufferViews, usedViews[k])]
  IN [gltf EXCEPT
        !.has = @ \cup {"buffers"},
        !.bufferViews = [k \in 1..Len(views) |-> CompactedView(views, k)],
        !.accessors = IF Has(gltf, "accessors")
                      THEN [k \in 1..Len(@) |-> RemapAccessor(@[k], usedViews)]
                      ELSE @,
        !.buffers = <<[byteLength |-> TotalLength(views)]>>]

NoCompact(gltf) == [gltf EXCEPT !.has = @ \cup {"buffers"}, !.buffers = <<>>]

newBinaryChunk(gltf, usedViews, binaryChunk) ==
  IF IsCompacted(gltf, usedViews, binaryChunk)
  THEN Binary(NewBinaryBytes(binaryChunk,
         [k \in 1..Len(usedViews) |-> BufferViewCopy(gltf.bufferViews, usedViews[k])]))
  ELSE NoBinary

(***************************************************************************)
(* sanitizeGLTF and cleanupObject (utility-functions.js).                  *)
(* cleanupObject deletes an array element that is undefined or an empty    *)
(* object: the element becomes a hole, the array keeps its length, and an  *)
(* array with no element left (Object.keys(...).length = 0) is deleted     *)
(* from its parent.  A hole is modelled by the empty object it replaces.   *)
(***************************************************************************)
IsEmptyPrimitive(primitive) ==
  /\ primitive.material = Undef /\ primitive.attributes = <<>>
  /\ primitive.indices = Undef /\ primitive.mode = Undef

IsEmptyNode(node) == node.name = <<>> /\ node.mesh = Undef /\ node.children = <<>>

IsEmptyScene(scene) == scene.name = <<>> /\ scene.nodes = <<>>

IsEmptyAccessor(accessor) == accessor.name = <<>> /\ accessor.bufferView = Undef

IsEmptyBufferView(bufferView) ==
  /\ bufferView.buffer = Undef /\ bufferView.byteOffset = Undef
  /\ bufferView.byteLength = Undef

\* an array of numbers after cleanupObject: deleted when no element is defined
CleanNumbers(numbers) ==
  IF \A k \in 1..Len(numbers) : numbers[k] = Undef THEN <<>> ELSE numbers

\* an object whose values are numbers: the undefined values are deleted
CleanAttributes(attributes) == SelectSeq(attributes, LAMBDA index : index # Undef)

CleanPrimitive(primitive) ==
  [primitive EXCEPT !.attributes = CleanAttributes(@)]

CleanPrimitives(primitives) ==
  LET cleaned == [k \in 1..Len(primitives) |-> CleanPrimitive(primitives[k])]
  IN IF \A k \in 1..Len(cleaned) : IsEmptyPrimitive(cleaned[k]) THEN <<>> ELSE cleaned

IsEmptyMesh(mesh) == mesh.name = <<>> /\ mesh.primitives = <<>>

CleanMesh(mesh) == [mesh EXCEPT !.primitives = CleanPrimitives(@)]

CleanNode(node) == [node EXCEPT !.children = CleanNumbers(@)]

CleanScene(scene) == [scene EXCEPT !.nodes = CleanNumbers(@)]

\* cleanupObject on the top-level array `key`
CleanArray(gltf, key, cleaned, allEmpty) ==
  IF ~Has(gltf, key) THEN gltf
  ELSE IF allEmpty THEN [gltf EXCEPT !.has = @ \ {key}, ![key] = <<>>]
  ELSE [gltf EXCEPT ![key] = cleaned]

cleanupObject(gltf) ==
  LET meshes == [k \in 1..Len(gltf.meshes) |-> CleanMesh(gltf.meshes[k])]
      g1 == CleanArray(gltf, "meshes", meshes,
                       \A k \in 1..Len(meshes) : IsEmptyMesh(meshes[k]))
      nodes == [k \in 1..Len(gltf.nodes) |-> CleanNode(gltf.nodes[k])]
      g2 == CleanArray(g1, "nodes", nodes, \A k \in 1..Len(nodes) : IsEmptyNode(nodes[k]))
      scenes == [k \in 1..Len(gltf.scenes) |-> CleanScene(gltf.scenes[k])]
      g3 == CleanArray(g2, "scenes", scenes,
                       \A k \in 1..Len(scenes) : IsEmptyScene(scenes[k]))
      g4 == CleanArray(g3, "accessors", gltf.accessors,
                       \A k \in 1..Len(gltf.accessors) : IsEmptyAccessor(gltf.accessors[k]))
      g5 == CleanArray(g4, "bufferViews", gltf.bufferViews,
                       \A k \in 1..Len(gltf.bufferViews) :
                          IsEmptyBufferView(gltf.bufferViews[k]))
      g6 == CleanArray(g5, "buffers", gltf.buffers, Len(gltf.buffers) = 0)
      g7 == CleanArray(g6, "textures", gltf.textures, Len(gltf.textures) = 0)
      g8 == CleanArray(g7, "images", gltf.images, Len(gltf.images) = 0)
      g9 == CleanArray(g8, "samplers", gltf.samplers, Len(gltf.samplers) = 0)
  IN CleanArray(g9, "materials", gltf.materials, Len(gltf.materials) = 0)

\* lines 104-110: an invalid material index becomes 0
FixMaterial(material, gltf) ==
  IF material # Undef
     /\ (material < 0
         \/ material >= (IF Has(gltf, "materials") THEN Len(gltf.materials) ELSE 0))
  THEN 0 ELSE material

\* lines 130-133
DropEmptyScenes(gltf) ==
  IF Has(gltf, "scenes") /\ Len(gltf.scenes) = 0
  THEN [gltf EXCEPT !.has = @ \ {"scenes"}]
  ELSE gltf

\* lines 135-139
FixScene(gltf) ==
  IF gltf.scene # Undef
     /\ (~Has(gltf, "scenes") \/ gltf.scene >= Len(gltf.scenes) \/ gltf.scene < 0)
  THEN [gltf EXCEPT !.scene = 0]
  ELSE gltf

\* lines 180-188
StripExtensions(material) == [material EXCEPT !.extensions = FALSE]

sanitizeGLTF(gltf) ==
  LET g1 == [gltf EXCEPT
               !.meshes = [k \in 1..Len(@) |->
                  [@[k] EXCEPT !.primitives =
                     [j \in 1..Len(@) |-> [@[j] EXCEPT !.material = FixMaterial(@, gltf)]]]]]
      g2 == FixScene(DropEmptyScenes(g1))
      g3 == [g2 EXCEPT !.materials = [k \in 1..Len(@) |-> StripExtensions(@[k])]]
  IN cleanupObject(g3)

(***************************************************************************)
(* The try block of createGLBForMaterial when it runs to its return: the   *)
(* document and the binary chunk that are handed to packGLB (which         *)
(* sanitizes the document once more), and the sets computed on the way.    *)
(***************************************************************************)
TryBlock(gltfData, materialIndex) ==
  LET json == gltfData.json
      kept == keptMeshIndices(json, materialIndex)
      used == usedAccessors(json, materialIndex)
      pruned == PruneGraph(json, materialIndex)
      usedViews == usedBufferViews(pruned, used)
      withAccessors == PruneAccessors(pruned, used)
      compacted == IsCompacted(withAccessors, usedViews, gltfData.binaryChunk)
      newGltf == IF compacted THEN Compact(withAccessors, usedViews, gltfData.binaryChunk)
                 ELSE NoCompact(withAccessors)
  IN [materialIndex |-> materialIndex,
      json |-> sanitizeGLTF(sanitizeGLTF(newGltf)),
      binaryChunk |-> newBinaryChunk(withAccessors, usedViews, gltfData.binaryChunk),
      compacted |-> compacted,
      keptMeshIndices |-> kept,
      nodesToKeep |-> IF Has(json, "nodes")
                      THEN nodesToKeep(json.nodes, SelectedNodes(json.nodes, kept),
                                       FilterMeshes(json, materialIndex))
                      ELSE <<>>,
      usedAccessors |-> used,
      usedBufferViews |-> usedViews]

(***************************************************************************)
(* Exceptions.  With integer offsets and lengths the statements of the try *)
(* block that can throw are those of the compactor: new ArrayBuffer throws *)
(* a RangeError for a negative length (line 491), and Uint8Array.set for a *)
(* negative offset or for data that does not fit (line 499).               *)
(***************************************************************************)
CompactThrows(views, binaryChunk) ==
  \/ TotalLength(views) < 0
  \/ \E k \in 1..Len(views) :
       \/ NewOffset(views, k) < 0
       \/ NewOffset(views, k) + Len(ViewData(binaryChunk, views[k])) > TotalLength(views)

TryBlockThrows(gltfData, materialIndex) ==
  LET json == gltfData.json
      used == usedAccessors(json, materialIndex)
      pruned == PruneGraph(json, materialIndex)
      usedViews == usedBufferViews(pruned, used)
      withAccessors == PruneAccessors(pruned, used)
  IN /\ IsCompacted(withAccessors, usedViews, gltfData.binaryChunk)
     /\ CompactThrows([k \in 1..Len(usedViews) |->
                         BufferViewCopy(withAccessors.bufferViews, usedViews[k])],
                      gltfData.binaryChunk)

\* the value null that takes the place of the container of a material
Null(materialIndex) == [materialIndex |-> materialIndex, null |-> TRUE]

IsNull(output) == "null" \in DOMAIN output

\* an exception that leaves createGLBForMaterial
Exception(materialIndex) == [materialIndex |-> materialIndex, exception |-> TRUE]

IsException(output) == "exception" \in DOMAIN output

\* a catch block that throws the error again
CatchAndRethrow(materialIndex) == Exception(materialIndex)

\* lines 534-538: the error is logged and null is returned
Catch(materialIndex) == Null(materialIndex)

createGLBForMaterial(gltfData, materialIndex) ==
  IF TryBlockThrows(gltfData, materialIndex) THEN Catch(materialIndex)
  ELSE TryBlock(gltfData, materialIndex)

(***************************************************************************)
(* The objects createGLBForMaterial writes to.  Every assignment of the    *)
(* function is to newGltf or to an object reached from it, and the bytes   *)
(* of gltfData.binaryChunk are only read (slice copies them, line 454); so *)
(* gltfData is written exactly when newGltf is the object gltfData.json.   *)
(* The documents of the model hold only what JSON can hold, so the copy    *)
(* has the value of the original.                                          *)
(***************************************************************************)
\* const newGltf = gltfData.json: the same object
SameObject(json) == [object |-> "gltfData.json", value |-> json]

\* line 162: JSON.parse(JSON.stringify(gltfData.json)) is a new object
DeepCopy(json) == [object |-> "newGltf", value |-> json]

\* gltfData after createGLBForMaterial(gltfData, materialIndex)
gltfDataAfter(gltfData, materialIndex) ==
  LET newGltf == DeepCopy(gltfData.json)
  IN IF newGltf.object = "gltfData.json"
     THEN [gltfData EXCEPT !.json =
             IF TryBlockThrows(gltfData, materialIndex)
             THEN PruneAccessors(PruneGraph(newGltf.value, materialIndex),
                                 usedAccessors(newGltf.value, materialIndex))
             ELSE TryBlock(gltfData, materialIndex).json]
     ELSE gltfData

(***************************************************************************)
(* JSON text.  A text is a sequence of one-character strings; "NUL" stands *)
(* for the character U+0000 and "GRAVE" for U+0060.  A number is held in   *)
(* thousandths, as the colours are, so the index 3 is the number 3000.     *)
(***************************************************************************)
Ascii ==
  <<" ", "!", "\"", "#", "$", "%", "&", "'", "(", ")", "*", "+", ",", "-", ".", "/",
    "0", "1", "2", "3", "4", "5", "6", "7", "8", "9", ":", ";", "<", "=", ">", "?",
    "@", "A", "B", "C", "D", "E", "F", "G", "H", "I", "J", "K", "L", "M", "N", "O",
    "P", "Q", "R", "S", "T", "U", "V", "W", "X", "Y", "Z", "[", "\\", "]", "^", "_",
    "GRAVE", "a", "b", "c", "d", "e", "f", "g", "h", "i", "j", "k", "l", "m", "n", "o",
    "p", "q", "r", "s", "t", "u", "v", "w", "x", "y", "z", "{", "|", "}", "~">>

\* TextEncoder.encode on one character of the texts used here (ASCII)
CharCode(ch) ==
  IF ch = "NUL" THEN 0
  ELSE IF ch = "\t" THEN 9
  ELSE IF ch = "\n" THEN 10
  ELSE IF ch = "\r" THEN 13
  ELSE 31 + (CHOOSE k \in 1..Len(Ascii) : Ascii[k] = ch)

TextEncode(text) == [k \in 1..Len(text) |-> CharCode(text[k])]

\* TextDecoder('utf-8').decode on one byte: a zero byte is the character U+0000
ByteChar(byte) ==
  IF byte >= 32 /\ byte <= 126 THEN Ascii[byte - 31]
  ELSE IF byte = 9 THEN "\t"
  ELSE IF byte = 10 THEN "\n"
  ELSE IF byte = 13 THEN "\r"
  ELSE IF byte = 0 THEN "NUL"
  ELSE "?"

TextDecode(bytes) == [k \in 1..Len(bytes) |-> ByteChar(bytes[k])]

JNull == [t |-> "null"]

JNum(thousandths) == [t |-> "num", n |-> thousandths]

JInt(i) == JNum(i * 1000)

JStr(chars) == [t |-> "str", s |-> chars]

JArr(items) == [t |-> "arr", items |-> items]

JObj(members) == [t |-> "obj", members |-> members]

Member(key, value) == [key |-> key, value |-> value]

\* the decimal digits of a natural number
RECURSIVE Digits(_)
Digits(n) ==
  IF n < 10 THEN <<Digit(n)>> ELSE Digits(n \div 10) \o <<Digit(n % 10)>>

\* the fraction digits of f thousandths (0 < f < 1000) without trailing zeros
FractionText(f) ==
  IF f % 100 = 0 THEN <<Digit(f \div 100)>>
  ELSE IF f % 10 = 0 THEN <<Digit(f \div 100), Digit((f \div 10) % 10)>>
  ELSE <<Digit(f \div 100), Digit((f \div 10) % 10), Digit(f % 10)>>

\* JSON.stringify of a number that is a whole number of thousandths
NumberText(n) ==
  LET a == Abs(n)
  IN (IF n < 0 THEN <<"-">> ELSE <<>>)
     \o Digits(a \div 1000)
     \o (IF a % 1000 = 0 THEN <<>> ELSE <<".">> \o FractionText(a % 1000))

\* JSON.stringify: no white space, members in insertion order; the strings used
\* here hold no character that needs an escape
RECURSIVE Stringify(_), StringifyItems(_), StringifyMembers(_)
Stringify(v) ==
  CASE v.t = "null" -> <<"n", "u", "l", "l">>
    [] v.t = "num" -> NumberText(v.n)
    [] v.t = "str" -> <<"\"">> \o v.s \o <<"\"">>
    [] v.t = "arr" -> <<"[">> \o StringifyItems(v.items) \o <<"]">>
    [] v.t = "obj" -> <<"{">> \o StringifyMembers(v.members) \o <<"}">>

StringifyItems(items) ==
  IF items = <<>> THEN <<>>
  ELSE IF Len(items) = 1 THEN Stringify(items[1])
  ELSE Stringify(Head(items)) \o <<",">> \o StringifyItems(Tail(items))

StringifyMembers(members) ==
  IF members = <<>> THEN <<>>
  ELSE LET first == <<"\"">> \o Head(members).key \o <<"\"", ":">>
                    \o Stringify(Head(members).value)
       IN IF Len(members) = 1 THEN first
          ELSE first \o <<",">> \o StringifyMembers(Tail(members))

\* JSON.parse.  White space is space, tab, line feed and carriage return: the
\* character U+0000 is not white space.
Whitespace == {" ", "\t", "\n", "\r"}

DigitChars == {"0", "1", "2", "3", "4", "5", "6", "7", "8", "9"}

DigitValue(ch) == (CHOOSE k \in 1..10 : Digit(k - 1) = ch) - 1

SyntaxError == [ok |-> FALSE, v |-> JNull, i |-> 0]

Parsed(v, i) == [ok |-> TRUE, v |-> v, i |-> i]

CharAt(text, i) == IF i >= 1 /\ i <= Len(text) THEN text[i] ELSE "EOF"

RECURSIVE SkipWhitespace(_, _)
SkipWhitespace(text, i) ==
  IF CharAt(text, i) \in Whitespace THEN SkipWhitespace(text, i + 1) ELSE i

\* the index after the run of digits that starts at i
RECURSIVE DigitsEnd(_, _)
DigitsEnd(text, i) ==
  IF CharAt(text, i) \in DigitChars THEN DigitsEnd(text, i + 1) ELSE i

\* the value of the digits text[i..j-1]
RECURSIVE DigitsValue(_, _, _)
DigitsValue(text, i, j) ==
  IF j <= i THEN 0 ELSE DigitsValue(text, i, j - 1) * 10 + DigitValue(text[j - 1])

ParseNumber(text, i) ==
  LET negative == CharAt(text, i) = "-"
      start == IF negative THEN i + 1 ELSE i
      intEnd == DigitsEnd(text, start)
      hasFraction == CharAt(text, intEnd) = "."
      fracEnd == IF hasFraction THEN DigitsEnd(text, intEnd + 1) ELSE intEnd
      fracLen == fracEnd - (intEnd + 1)
      fraction == IF ~hasFraction THEN 0
                  ELSE IF fracLen = 1 THEN DigitsValue(text, intEnd + 1, fracEnd) * 100
                  ELSE IF fracLen = 2 THEN DigitsValue(text, intEnd + 1, fracEnd) * 10
                  ELSE DigitsValue(text, intEnd + 1, fracEnd)
      magnitude == DigitsValue(text, start, intEnd) * 1000 + fraction
  IN IF intEnd = start \/ (hasFraction /\ (fracLen < 1 \/ fracLen > 3)) THEN SyntaxError
     ELSE Parsed(JNum(IF negative THEN -magnitude ELSE magnitude), fracEnd)

\* the index of the quote that closes the string whose first character is at i;
\* 0 when the text ends first or the string holds a control character or an escape
RECURSIVE StringEnd(_, _)
StringEnd(text, i) ==
  IF CharAt(text, i) = "\"" THEN i
  ELSE IF CharAt(text, i) \in {"EOF", "NUL", "\t", "\n", "\r", "\\"} THEN 0
  ELSE StringEnd(text, i + 1)

ParseString(text, i) ==
  LET end == StringEnd(text, i + 1)
  IN IF end = 0 THEN SyntaxError
     ELSE Parsed(JStr(SubSeq(text, i + 1, end - 1)), end + 1)

ParseNull(text, i) ==
  IF SubSeq(text, i, i + 3) = <<"n", "u", "l", "l">> THEN Parsed(JNull, i + 4)
  ELSE SyntaxError

RECURSIVE ParseValue(_, _), ParseElements(_, _, _), ParseMembers(_, _, _)
ParseValue(text, i) ==
  LET ch == CharAt(text, i)
  IN IF ch = "{"
     THEN IF CharAt(text, SkipWhitespace(text, i + 1)) = "}"
          THEN Parsed(JObj(<<>>), SkipWhitespace(text, i + 1) + 1)
          ELSE ParseMembers(text, SkipWhitespace(text, i + 1), <<>>)
     ELSE IF ch = "["
     THEN IF CharAt(text, SkipWhitespace(text, i + 1)) = "]"
          THEN Parsed(JArr(<<>>), SkipWhitespace(text, i + 1) + 1)
          ELSE ParseElements(text, SkipWhitespace(text, i + 1), <<>>)
     ELSE IF ch = "\"" THEN ParseString(text, i)
     ELSE IF ch = "n" THEN ParseNull(text, i)
     ELSE IF ch = "-" \/ ch \in DigitChars THEN ParseNumber(text, i)
     ELSE SyntaxError

\* the elements of an array from the element at i on; `items` are those read so far
ParseElements(text, i, items) ==
  LET element == ParseValue(text, i)
      after == SkipWhitespace(text, element.i)
  IN IF ~element.ok THEN SyntaxError
     ELSE IF CharAt(text, after) = ","
     THEN ParseElements(text, SkipWhitespace(text, after + 1), Append(items, element.v))
     ELSE IF CharAt(text, after) = "]"
     THEN Parsed(JArr(Append(items, element.v)), after + 1)
     ELSE SyntaxError

\* the members of an object from the key at i on
ParseMembers(text, i, members) ==
  LET key == IF CharAt(text, i) = "\"" THEN ParseString(text, i) ELSE SyntaxError
      colon == SkipWhitespace(text, key.i)
      value == IF key.ok /\ CharAt(text, colon) = ":"
               THEN ParseValue(text, SkipWhitespace(text, colon + 1))
               ELSE SyntaxError
      after == SkipWhitespace(text, value.i)
      read == Append(members, Member(key.v.s, value.v))
  IN IF ~value.ok THEN SyntaxError
     ELSE IF CharAt(text, after) = ","
     THEN ParseMembers(text, SkipWhitespace(text, after + 1), read)
     ELSE IF CharAt(text, after) = "}" THEN Parsed(JObj(read), after + 1)
     ELSE SyntaxError

\* JSON.parse(text): one value, white space around it, nothing else
JSONParse(text) ==
  LET value == ParseValue(text, SkipWhitespace(text, 1))
  IN IF value.ok /\ SkipWhitespace(text, value.i) > Len(text) THEN value
     ELSE SyntaxError

(***************************************************************************)
(* The document as JSON.  packGLB receives the documents that              *)
(* createGLBForMaterial built, which hold no textures, images or samplers  *)
(* (lines 392-394); the members come in the order written here.  An array  *)
(* element that cleanupObject deleted is a hole, which JSON.stringify      *)
(* writes as null.                                                         *)
(***************************************************************************)
OptionalName(name) ==
  IF name = <<>> THEN <<>> ELSE <<Member(<<"n", "a", "m", "e">>, JStr(name))>>

OptionalInt(key, value) == IF value = Undef THEN <<>> ELSE <<Member(key, JInt(value))>>

OptionalArray(key, items) == IF items = <<>> THEN <<>> ELSE <<Member(key, JArr(items))>>

NumbersJSON(numbers) ==
  [k \in 1..Len(numbers) |-> IF numbers[k] = Undef THEN JNull ELSE JInt(numbers[k])]

ElementJSON(members) == IF members = <<>> THEN JNull ELSE JObj(members)

AttributeNames ==
  <<<<"P", "O", "S", "I", "T", "I", "O", "N">>, <<"N", "O", "R", "M", "A", "L">>>>

AttributesJSON(attributes) ==
  IF attributes = <<>> THEN <<>>
  ELSE <<Member(<<"a", "t", "t", "r", "i", "b", "u", "t", "e", "s">>,
                JObj([k \in 1..Len(attributes) |->
                        Member(AttributeNames[k], JInt(attributes[k]))]))>>

PrimitiveJSON(primitive) ==
  ElementJSON(AttributesJSON(primitive.attributes)
              \o OptionalInt(<<"i", "n", "d", "i", "c", "e", "s">>, primitive.indices)
              \o OptionalInt(<<"m", "a", "t", "e", "r", "i", "a", "l">>, primitive.material)
              \o OptionalInt(<<"m", "o", "d", "e">>, primitive.mode))

MeshJSON(mesh) ==
  ElementJSON(OptionalName(mesh.name)
              \o OptionalArray(<<"p", "r", "i", "m", "i", "t", "i", "v", "e", "s">>,
                               [k \in 1..Len(mesh.primitives) |->
                                  PrimitiveJSON(mesh.primitives[k])]))

NodeJSON(node) ==
  ElementJSON(OptionalName(node.name)
              \o OptionalInt(<<"m", "e", "s", "h">>, node.mesh)
              \o OptionalArray(<<"c", "h", "i", "l", "d", "r", "e", "n">>,
                               NumbersJSON(node.children)))

SceneJSON(scene) ==
  ElementJSON(OptionalName(scene.name)
              \o OptionalArray(<<"n", "o", "d", "e", "s">>, NumbersJSON(scene.nodes)))

AccessorJSON(accessor) ==
  ElementJSON(OptionalName(accessor.name)
              \o OptionalInt(<<"b", "u", "f", "f", "e", "r", "V", "i", "e", "w">>,
                             accessor.bufferView))

BufferViewJSON(bufferView) ==
  ElementJSON(OptionalInt(<<"b", "u", "f", "f", "e", "r">>, bufferView.buffer)
              \o OptionalInt(<<"b", "y", "t", "e", "O", "f", "f", "s", "e", "t">>,
                             bufferView.byteOffset)
              \o OptionalInt(<<"b", "y", "t", "e", "L", "e", "n", "g", "t", "h">>,
                             bufferView.byteLength))

BufferJSON(buffer) ==
  JObj(<<Member(<<"b", "y", "t", "e", "L", "e", "n", "g", "t", "h">>, JInt(buffer.byteLength))>>)

\* the members the model holds of a material
MaterialJSON(material) ==
  JObj(OptionalName(material.name)
       \o <<Member(<<"p", "b", "r", "M", "e", "t", "a", "l", "l", "i", "c", "R", "o", "u", "g", "h", "n", "e", "s", "s">>,
                   JObj(<<Member(<<"b", "a", "s", "e", "C", "o", "l", "o", "r", "F", "a", "c", "t", "o", "r">>,
                                 JArr([k \in 1..Len(material.baseColorFactor) |->
                                         JNum(material.baseColorFactor[k])]))>>
                        \o (IF material.baseColorTexture = Undef THEN <<>>
                            ELSE <<Member(<<"b", "a", "s", "e", "C", "o", "l", "o", "r", "T", "e", "x", "t", "u", "r", "e">>,
                                          JObj(<<Member(<<"i", "n", "d", "e", "x">>, JInt(material.baseColorTexture))>>))>>)))>>
       \o (IF material.extensions
           THEN <<Member(<<"e", "x", "t", "e", "n", "s", "i", "o", "n", "s">>, JObj(<<Member(<<"x">>, JInt(1))>>))>>
           ELSE <<>>))

\* the member `key` of the document when the array is present
ArrayMember(gltf, name, key, elements) ==
  IF Has(gltf, name) THEN <<Member(key, JArr(elements))>> ELSE <<>>

\* lines 230-238 of packGLB: the asset stamp
PackAsset ==
  JObj(<<Member(<<"v", "e", "r", "s", "i", "o", "n">>, JStr(<<"2", ".", "0">>)),
         Member(<<"g", "e", "n", "e", "r", "a", "t", "o", "r">>,
                JStr(<<"G", "L", "B", " ", "E", "x", "t", "r", "a", "c", "t", "o", "r", " ",
                       "T", "o", "o", "l", " ", "v", "1", ".", "5">>))>>)

DocumentMembers(gltf) ==
  OptionalInt(<<"s", "c", "e", "n", "e">>, gltf.scene)
  \o ArrayMember(gltf, "scenes", <<"s", "c", "e", "n", "e", "s">>,
                 [k \in 1..Len(gltf.scenes) |-> SceneJSON(gltf.scenes[k])])
  \o ArrayMember(gltf, "nodes", <<"n", "o", "d", "e", "s">>,
                 [k \in 1..Len(gltf.nodes) |-> NodeJSON(gltf.nodes[k])])
  \o ArrayMember(gltf, "meshes", <<"m", "e", "s", "h", "e", "s">>,
                 [k \in 1..Len(gltf.meshes) |-> MeshJSON(gltf.meshes[k])])
  \o ArrayMember(gltf, "materials", <<"m", "a", "t", "e", "r", "i", "a", "l", "s">>,
                 [k \in 1..Len(gltf.materials) |-> MaterialJSON(gltf.materials[k])])
  \o ArrayMember(gltf, "accessors", <<"a", "c", "c", "e", "s", "s", "o", "r", "s">>,
                 [k \in 1..Len(gltf.accessors) |-> AccessorJSON(gltf.accessors[k])])
  \o ArrayMember(gltf, "bufferViews", <<"b", "u", "f", "f", "e", "r", "V", "i", "e", "w", "s">>,
                 [k \in 1..Len(gltf.bufferViews) |-> BufferViewJSON(gltf.bufferViews[k])])
  \o ArrayMember(gltf, "buffers", <<"b", "u", "f", "f", "e", "r", "s">>,
                 [k \in 1..Len(gltf.buffers) |-> BufferJSON(gltf.buffers[k])])

\* the document with its asset member first
DocumentJSON(gltf, asset) ==
  JObj(<<Member(<<"a", "s", "s", "e", "t">>, asset)>> \o DocumentMembers(gltf))

(***************************************************************************)
(* packGLB (utility-functions.js lines 222-322): the bytes of a container. *)
(***************************************************************************)
Magic == 1179937895

JsonChunkType == 1313821514

BinChunkType == 5130562

GlbVersion == 2

headerLength == 12

jsonChunkHeaderLength == 8

\* bufferBytes.fill(0): the value of every byte that nothing is written to
FillByte == 0

\* DataView.setUint32(offset, value, true): four bytes, little endian
Uint32Bytes(value) ==
  <<value % 256, (value \div 256) % 256, (value \div 65536) % 256,
    (value \div 16777216) % 256>>

Fill(n) == [k \in 1..n |-> FillByte]

jsonPadding(byteLength) == (4 - (byteLength % 4)) % 4

binPadding(byteLength) == (4 - (byteLength % 4)) % 4

\* binaryChunk && binaryChunk.byteLength > 0
HasBinChunk(binaryChunk) == binaryChunk.present /\ Len(binaryChunk.bytes) > 0

binPaddedLength(binaryChunk) ==
  IF HasBinChunk(binaryChunk)
  THEN Len(binaryChunk.bytes) + binPadding(Len(binaryChunk.bytes))
  ELSE 0

\* a total that forgets the header of the binary chunk
TotalLengthWithoutBinHeader(jsonPaddedLength, binaryChunk) ==
  headerLength + jsonChunkHeaderLength + jsonPaddedLength + binPaddedLength(binaryChunk)

totalLength(jsonPaddedLength, binaryChunk) ==
  headerLength + jsonChunkHeaderLength + jsonPaddedLength
  + (IF HasBinChunk(binaryChunk) THEN 8 + binPaddedLength(binaryChunk) ELSE 0)

\* the text that packGLB encodes: the sanitized document with the asset stamp
gltfString(gltf) == Stringify(DocumentJSON(sanitizeGLTF(gltf), PackAsset))

BinChunkBytes(binaryChunk) ==
  IF HasBinChunk(binaryChunk)
  THEN Uint32Bytes(binPaddedLength(binaryChunk)) \o Uint32Bytes(BinChunkType)
       \o binaryChunk.bytes \o Fill(binPadding(Len(binaryChunk.bytes)))
  ELSE <<>>

packGLB(gltf, binaryChunk) ==
  LET jsonBuffer == TextEncode(gltfString(gltf))
      jsonPaddedLength == Len(jsonBuffer) + jsonPadding(Len(jsonBuffer))
  IN Uint32Bytes(Magic) \o Uint32Bytes(GlbVersion)
     \o Uint32Bytes(totalLength(jsonPaddedLength, binaryChunk))
     \o Uint32Bytes(jsonPaddedLength) \o Uint32Bytes(JsonChunkType)
     \o jsonBuffer \o Fill(jsonPadding(Len(jsonBuffer)))
     \o BinChunkBytes(binaryChunk)

(***************************************************************************)
(* parseGLBBinary (glb-parser.js lines 37-113), one operator per step.     *)
(* The locals of the function are the fields of `parser`.                  *)
(***************************************************************************)
\* DataView.getUint32 throws a RangeError when the four bytes are not all there
OutOfBounds(arrayBuffer, offset) == offset + 4 > Len(arrayBuffer)

\* DataView.getUint32(offset, true)
getUint32(arrayBuffer, offset) ==
  arrayBuffer[offset + 1] + arrayBuffer[offset + 2] * 256
  + arrayBuffer[offset + 3] * 65536 + arrayBuffer[offset + 4] * 16777216

NoParser ==
  [arrayBuffer |-> <<>>, offset |-> 0, version |-> Undef, jsonChunkLength |-> Undef,
   jsonText |-> <<>>, gltf |-> JNull, binaryChunk |-> NoBinary, warnings |-> {},
   error |-> "", chunkHeadersRead |-> 0, decoded |-> FALSE, parsed |-> FALSE]

ParserOf(arrayBuffer) == [NoParser EXCEPT !.arrayBuffer = arrayBuffer]

Thrown(parser, error) == [parser EXCEPT !.error = error]

\* a check that lets every magic through
AnyMagicIsValid(magic) == TRUE

\* lines 43-46
MagicIsValid(magic) == magic = Magic

\* lines 40-46: the magic
CheckMagic(parser) ==
  IF OutOfBounds(parser.arrayBuffer, 0) THEN Thrown(parser, "RangeError")
  ELSE IF ~MagicIsValid(getUint32(parser.arrayBuffer, 0))
  THEN Thrown(parser, "Incorrect magic number")
  ELSE parser

\* a version check that refuses every version but 2
CheckVersionStrict(parser) ==
  IF OutOfBounds(parser.arrayBuffer, 4) \/ getUint32(parser.arrayBuffer, 4) # GlbVersion
  THEN Thrown(parser, "Unsupported GLB version")
  ELSE [parser EXCEPT !.version = GlbVersion, !.offset = headerLength]

\* lines 48-59: the version (a warning when it is not 2) and the length field
CheckVersion(parser) ==
  IF OutOfBounds(parser.arrayBuffer, 4) \/ OutOfBounds(parser.arrayBuffer, 8)
  THEN Thrown(parser, "RangeError")
  ELSE LET version == getUint32(parser.arrayBuffer, 4)
       IN [parser EXCEPT
             !.version = version,
             !.warnings = IF version # GlbVersion THEN @ \cup {"Unsupported GLB version"}
                          ELSE @,
             !.offset = headerLength]

\* lines 64-71: the header of the first chunk
ReadJsonChunkHeader(parser) ==
  IF OutOfBounds(parser.arrayBuffer, parser.offset)
     \/ OutOfBounds(parser.arrayBuffer, parser.offset + 4)
  THEN Thrown(parser, "RangeError")
  ELSE LET read == [parser EXCEPT
                      !.jsonChunkLength = getUint32(parser.arrayBuffer, parser.offset),
                      !.offset = @ + 8,
                      !.chunkHeadersRead = @ + 1]
       IN IF getUint32(parser.arrayBuffer, parser.offset + 4) # JsonChunkType
          THEN Thrown(read, "First chunk is not JSON")
          ELSE read

\* lines 73-79: the bytes of the chunk, decoded as UTF-8
DecodeJson(parser) ==
  [parser EXCEPT
     !.jsonText = TextDecode(Slice(parser.arrayBuffer, parser.offset,
                                   parser.offset + parser.jsonChunkLength)),
     !.offset = @ + parser.jsonChunkLength,
     !.decoded = TRUE]

\* lines 80-82 and 104-107: JSON.parse
ParseJson(parser) ==
  LET result == JSONParse(parser.jsonText)
  IN IF result.ok THEN [parser EXCEPT !.gltf = result.v, !.parsed = TRUE]
     ELSE Thrown([parser EXCEPT !.parsed = TRUE], "JSON chunk contains invalid JSON")

\* lines 84-103: the chunk after the document, when there are bytes left; an
\* exception in here is caught at line 104 and reported as invalid JSON
ReadBinChunk(parser) ==
  IF parser.offset < Len(parser.arrayBuffer)
  THEN IF OutOfBounds(parser.arrayBuffer, parser.offset)
          \/ OutOfBounds(parser.arrayBuffer, parser.offset + 4)
       THEN Thrown(parser, "JSON chunk contains invalid JSON")
       ELSE LET binaryChunkLength == getUint32(parser.arrayBuffer, parser.offset)
                start == parser.offset + 8
            IN IF getUint32(parser.arrayBuffer, parser.offset + 4) = BinChunkType
               THEN [parser EXCEPT
                       !.chunkHeadersRead = @ + 1,
                       !.offset = start,
                       !.binaryChunk = Binary(Slice(parser.arrayBuffer, start,
                                                    start + binaryChunkLength))]
               ELSE [parser EXCEPT
                       !.chunkHeadersRead = @ + 1,
                       !.offset = start,
                       !.warnings = @ \cup {"Unknown chunk type"}]
  ELSE parser

(***************************************************************************)
(* Input documents.                                                        *)
(***************************************************************************)
Document(has, materials, meshes, nodes, scenes, scene, accessors, bufferViews, buffers, textures) ==
  [has |-> has, materials |-> materials, meshes |-> meshes, nodes |-> nodes,
   scenes |-> scenes, scene |-> scene, accessors |-> accessors,
   bufferViews |-> bufferViews, buffers |-> buffers,
   textures |-> textures, images |-> textures, samplers |-> textures]

KeyIf(key, present) == IF present THEN {key} ELSE {}

\* the keys of the arrays that are present: an array that is empty here is absent
Keys(materials, meshes, scenes, accessors, bufferViews, buffers, textures) ==
  KeyIf("materials", Len(materials) > 0) \cup KeyIf("meshes", Len(meshes) > 0)
  \cup KeyIf("scenes", Len(scenes) > 0) \cup KeyIf("accessors", Len(accessors) > 0)
  \cup KeyIf("bufferViews", Len(bufferViews) > 0) \cup KeyIf("buffers", Len(buffers) > 0)
  \cup KeyIf("textures", Len(textures) > 0) \cup KeyIf("images", Len(textures) > 0)
  \cup KeyIf("samplers", Len(textures) > 0)

PlainMaterial(name) == Material(name, Undef, FALSE, <<1000, 1000, 1000, 1000>>)

NamedMesh(meshIndex, primitives) == Mesh(<<"mesh", Digit(meshIndex)>>, primitives)

NamedNode(nodeIndex, mesh, children) == Node(<<"node", Digit(nodeIndex)>>, mesh, children)

NamedScene(sceneIndex, nodes) == Scene(<<"scene", Digit(sceneIndex)>>, nodes)

NamedAccessor(accessorIndex, bufferView) ==
  Accessor(<<"accessor", Digit(accessorIndex)>>, bufferView)

\* a binary chunk of n bytes, all different and none zero
Payload(n) == Binary([p \in 1..n |-> p])

(***************************************************************************)
(* Scene graphs: up to MaxNodes nodes with any `mesh` reference and any    *)
(* acyclic `children` relation of at most MaxEdges edges (a child may have *)
(* several parents, a parent may come before or after its child), over two *)
(* meshes of which any subset uses material 0.                             *)
(***************************************************************************)
GraphMeshes ==
  {<<>>} \cup
  {<<NamedMesh(0, <<Primitive(a, <<>>, Undef, 4)>>),
     NamedMesh(1, <<Primitive(b, <<>>, Undef, 4)>>)>> : a, b \in {0, Undef}}

\* the nodes of `frontier` and the nodes reachable from them through the edges of E
RECURSIVE Descendants(_, _)
Descendants(E, frontier) ==
  LET next == frontier \cup {e[2] : e \in {d \in E : d[1] \in frontier}}
  IN IF next = frontier THEN frontier ELSE Descendants(E, next)

IsAcyclic(E) == \A e \in E : e[1] \notin Descendants(E, {e[2]})

EdgeSets(n) ==
  {E \in SUBSET ((0..(n - 1)) \X (0..(n - 1))) : Cardinality(E) <= MaxEdges}

\* a valid glTF hierarchy has no cycle; a child may have several parents here
AcyclicEdgeSets(n) == {E \in EdgeSets(n) : IsAcyclic(E)}

GraphNodes(n, meshCount, edgeSets) ==
  {[k \in 1..n |-> NamedNode(k - 1, mesh[k], SortedSeq({c \in 0..(n - 1) : <<k - 1, c>> \in E}))] :
     mesh \in [1..n -> {Undef} \cup (0..(meshCount - 1))], E \in edgeSets}

RootLists(n) == {SortedSeq(R) : R \in SUBSET (0..(n - 1))}

GraphScenes(n) ==
  {<<>>}
  \cup {<<NamedScene(0, roots)>> : roots \in RootLists(n)}
  \cup {<<NamedScene(0, <<a>>), NamedScene(1, <<b>>)>> :
          a \in 0..(n - 1), b \in 0..(n - 1)}

GraphDocument(meshes, nodes, hasNodes, scenes) ==
  LET materials == <<PlainMaterial(<<"matA">>)>>
  IN Document(Keys(materials, meshes, scenes, <<>>, <<>>, <<>>, <<>>)
                \cup KeyIf("nodes", hasNodes),
              materials, meshes, nodes, scenes,
              IF scenes = <<>> THEN Undef ELSE 0, <<>>, <<>>, <<>>, <<>>)

(***************************************************************************)
(* Mesh tables: up to MaxMeshes meshes of zero to two primitives, each     *)
(* primitive using one of two materials; the first material may carry a    *)
(* texture reference and extensions, and the document then has textures,   *)
(* images and samplers.  The `mode` of a primitive is its position in its  *)
(* mesh, which tells the primitives of a mesh apart.                       *)
(***************************************************************************)
PrimitiveLists ==
  {[j \in 1..Len(materials) |-> Primitive(materials[j], <<>>, Undef, j - 1)] :
     materials \in SeqsUpTo({0, 1}, 2)}

MeshTables ==
  {[k \in 1..Len(lists) |-> NamedMesh(k - 1, lists[k])] :
     lists \in SeqsUpTo(PrimitiveLists, MaxMeshes)}

TexturedMaterial == Material(<<>>, 0, TRUE, <<1000, 1000, 1000, 1000>>)

MaterialTables ==
  {<<PlainMaterial(<<"matA">>), PlainMaterial(<<"matB">>)>>,
   <<TexturedMaterial, PlainMaterial(<<"matB">>)>>}

\* node arrays of a mesh table: none, one node per mesh, one node without a mesh
NodeShapes == {"absent", "perMesh", "bare"}

ShapeNodes(shape, meshes) ==
  IF shape = "perMesh" THEN [k \in 1..Len(meshes) |-> NamedNode(k - 1, k - 1, <<>>)]
  ELSE IF shape = "bare" THEN <<NamedNode(0, Undef, <<>>)>>
  ELSE <<>>

MeshDocument(materials, meshes, shape) ==
  LET nodes == ShapeNodes(shape, meshes)
      scenes == IF nodes = <<>> THEN <<>> ELSE <<NamedScene(0, Indices(nodes))>>
      textures == IF materials[1].baseColorTexture # Undef THEN <<0>> ELSE <<>>
  IN Document(Keys(materials, meshes, scenes, <<>>, <<>>, <<>>, textures)
                \cup KeyIf("nodes", shape # "absent"),
              materials, meshes, nodes, scenes,
              IF scenes = <<>> THEN Undef ELSE 0, <<>>, <<>>, <<>>, textures)

(***************************************************************************)
(* Buffers: two accessors, up to MaxViews buffer views of 4, 7 or 10 bytes *)
(* packed back to back in one buffer, a first mesh of one or two           *)
(* primitives that may or may not use material 0 and a second mesh that    *)
(* does not, under two parents that share one child node.  The binary      *)
(* chunk is present (a .glb) or absent (a .gltf).                          *)
(***************************************************************************)
ByteLengths == {4, 7, 10}

BufferPrimitives ==
  {Primitive(material, <<a>>, indices, 4) :
     material \in {0, Undef}, a \in {0, 1}, indices \in {Undef, 0, 1}}

BufferMeshes ==
  {<<NamedMesh(0, primitives), NamedMesh(1, <<Primitive(Undef, <<0>>, Undef, 4)>>)>> :
     primitives \in SeqsUpTo({p \in BufferPrimitives : p.indices # p.attributes[1]}, 2)
                    \ {<<>>}}

BufferAccessors(viewCount) ==
  {<<NamedAccessor(0, v0), NamedAccessor(1, v1)>> :
     v0, v1 \in {Undef} \cup (0..(viewCount - 1))}

RECURSIVE PackedOffset(_, _)
PackedOffset(lengths, k) ==
  IF k = 1 THEN 0 ELSE PackedOffset(lengths, k - 1) + lengths[k - 1]

PackedLength(lengths) ==
  IF lengths = <<>> THEN 0 ELSE PackedOffset(lengths, Len(lengths)) + lengths[Len(lengths)]

\* the first view has no byteOffset key
PackedViews(lengths) ==
  [k \in 1..Len(lengths) |->
     BufferView(0, IF k = 1 THEN Undef ELSE PackedOffset(lengths, k), lengths[k])]

SharedChildNodes ==
  <<NamedNode(0, Undef, <<2>>), NamedNode(1, Undef, <<2>>), NamedNode(2, 0, <<>>)>>

BufferDocument(meshes, accessors, lengths) ==
  LET materials == <<PlainMaterial(<<"matA">>)>>
      scenes == <<NamedScene(0, <<0, 1>>)>>
      bufferViews == PackedViews(lengths)
      buffers == IF lengths = <<>> THEN <<>> ELSE <<[byteLength |-> PackedLength(lengths)]>>
  IN Document(Keys(materials, meshes, scenes, accessors, bufferViews, buffers, <<>>)
                \cup {"nodes"},
              materials, meshes, SharedChildNodes, scenes, 0, accessors, bufferViews,
              buffers, <<>>)

(***************************************************************************)
(* Batches: two materials, one mesh of one or two primitives that take     *)
(* either material and either of two accessors, one buffer view per        *)
(* accessor.  The second view is 4 or 7 bytes long, or has the byteLength  *)
(* -4 that a damaged file can carry.  The binary chunk is present or       *)
(* absent.  MaxCalls bounds the calls made in any order.                   *)
(***************************************************************************)
MaxCalls == 2

BatchPrimitives ==
  SeqsUpTo({Primitive(material, <<a>>, Undef, 4) : material \in {0, 1}, a \in {0, 1}}, 2)
  \ {<<>>}

BatchLengths == {<<first, second>> : first \in {4, 7}, second \in {4, 7, -4}}

\* the bytes the views of a batch document cover
ChunkLength(lengths) == lengths[1] + (IF lengths[2] > 0 THEN lengths[2] ELSE 0)

BatchDocument(primitives, lengths) ==
  LET materials == <<PlainMaterial(<<"matA">>), PlainMaterial(<<"matB">>)>>
      meshes == <<NamedMesh(0, primitives)>>
      nodes == <<NamedNode(0, 0, <<>>)>>
      scenes == <<NamedScene(0, <<0>>)>>
      accessors == <<NamedAccessor(0, 0), NamedAccessor(1, 1)>>
      bufferViews == PackedViews(lengths)
      buffers == <<[byteLength |-> ChunkLength(lengths)]>>
  IN Document(Keys(materials, meshes, scenes, accessors, bufferViews, buffers, <<>>)
                \cup {"nodes"},
              materials, meshes, nodes, scenes, 0, accessors, bufferViews, buffers, <<>>)

(***************************************************************************)
(* Hierarchies: up to MaxTreeNodes nodes, each with the kept mesh or with  *)
(* none, and any `children` relation of at most MaxLinks links: chains,    *)
(* children of several parents, cycles, self-references, and links to the  *)
(* index just past the end of the array.                                   *)
(***************************************************************************)
MaxTreeNodes == 3

MaxLinks == 2

LinkSets(n) ==
  {E \in SUBSET ((0..(n - 1)) \X (0..n)) : Cardinality(E) <= MaxLinks}

HierarchyNodes(n) ==
  {[k \in 1..n |-> NamedNode(k - 1, mesh[k], SortedSeq({c \in 0..n : <<k - 1, c>> \in E}))] :
     mesh \in [1..n -> {Undef, 0}], E \in LinkSets(n)}

HierarchyDocument(nodes) ==
  LET materials == <<PlainMaterial(<<"matA">>)>>
      meshes == <<NamedMesh(0, <<Primitive(0, <<>>, Undef, 4)>>)>>
      scenes == <<NamedScene(0, <<0>>)>>
  IN Document(Keys(materials, meshes, scenes, <<>>, <<>>, <<>>, <<>>) \cup {"nodes"},
              materials, meshes, nodes, scenes, 0, <<>>, <<>>, <<>>, <<>>)

(***************************************************************************)
(* Documents for the sanitizer: up to two scenes that are named or not and *)
(* have a node list or an empty one, a scenes array that may be present    *)
(* and empty, a default scene that is absent, valid or out of range, one   *)
(* mesh whose primitive has no material, a valid one or one out of range,  *)
(* and a first material with or without extensions.                        *)
(***************************************************************************)
SanitizerScenes ==
  SeqsUpTo({Scene(<<>>, <<>>), Scene(<<>>, <<0>>), NamedScene(0, <<>>)}, 2)

SanitizerDocument(materials, material, scenes, hasScenes, scene) ==
  LET meshes == <<NamedMesh(0, <<Primitive(material, <<>>, Undef, 4)>>)>>
      nodes == <<NamedNode(0, 0, <<>>)>>
      textures == IF materials[1].baseColorTexture # Undef THEN <<0>> ELSE <<>>
  IN Document(Keys(materials, meshes, scenes, <<>>, <<>>, <<>>, textures)
                \cup {"nodes"} \cup KeyIf("scenes", hasScenes),
              materials, meshes, nodes, scenes, scene, <<>>, <<>>, <<>>, textures)

(***************************************************************************)
(* Containers: documents of one node whose name has 1 to MaxName letters   *)
(* (so that the length of the JSON text takes every residue modulo 4),     *)
(* with no scene, one scene or one empty scene, and no material, a plain   *)
(* one or one with extensions; payloads that are absent or hold 0 to       *)
(* MaxPayload bytes.  A container is packed by packGLB or comes from       *)
(* another writer, which pads the JSON text with spaces.                   *)
(***************************************************************************)
MaxName == 4

MaxPayload == 5

CodecNames == {[k \in 1..n |-> Ascii[65 + k]] : n \in 1..MaxName}

SceneShapes == {"none", "one", "empty"}

MaterialKinds == {"none", "plain", "extended"}

Payloads == {NoBinary} \cup {Payload(n) : n \in 0..MaxPayload}

CodecMaterials(kind) ==
  IF kind = "plain" THEN <<PlainMaterial(<<"m">>)>>
  ELSE IF kind = "extended" THEN <<Material(<<"m">>, Undef, TRUE, <<1000, 1000, 1000, 1000>>)>>
  ELSE <<>>

CodecDocument(name, shape, kind) ==
  LET scenes == IF shape = "one" THEN <<Scene(<<>>, <<0>>)>>
                ELSE IF shape = "empty" THEN <<Scene(<<>>, <<>>)>>
                ELSE <<>>
      materials == CodecMaterials(kind)
  IN Document(Keys(materials, <<>>, scenes, <<>>, <<>>, <<>>, <<>>) \cup {"nodes"},
              materials, <<>>, <<Node(name, Undef, <<>>)>>, scenes,
              IF scenes = <<>> THEN Undef ELSE 0, <<>>, <<>>, <<>>, <<>>)

ContainerVariants ==
  {"valid", "badMagic", "version3", "firstNotJson", "unknownChunk", "truncated"}

\* a container of another writer: JSON text padded with spaces, then the payload
\* (when it has bytes) in a chunk of its own
ForeignContainer(variant, gltf, binaryChunk) ==
  LET jsonBuffer == TextEncode(Stringify(DocumentJSON(gltf, PackAsset)))
      jsonChunk == jsonBuffer
                   \o [k \in 1..jsonPadding(Len(jsonBuffer)) |-> CharCode(" ")]
      binChunk == IF HasBinChunk(binaryChunk)
                  THEN Uint32Bytes(binPaddedLength(binaryChunk))
                       \o Uint32Bytes(IF variant = "unknownChunk" THEN BinChunkType + 1
                                      ELSE BinChunkType)
                       \o binaryChunk.bytes \o Fill(binPadding(Len(binaryChunk.bytes)))
                  ELSE <<>>
      whole == Uint32Bytes(IF variant = "badMagic" THEN Magic + 1 ELSE Magic)
               \o Uint32Bytes(IF variant = "version3" THEN GlbVersion + 1 ELSE GlbVersion)
               \o Uint32Bytes(headerLength + jsonChunkHeaderLength + Len(jsonChunk)
                              + Len(binChunk))
               \o Uint32Bytes(Len(jsonChunk))
               \o Uint32Bytes(IF variant = "firstNotJson" THEN BinChunkType
                              ELSE JsonChunkType)
               \o jsonChunk \o binChunk
  IN IF variant = "truncated" THEN SubSeq(whole, 1, Len(whole) - 6) ELSE whole

(***************************************************************************)
(* The state: the parsed input (gltfData of processFile) and the outputs   *)
(* of the batch loop so far (materials[i].glbData, main.js lines 216-221). *)
(***************************************************************************)
\* pc is the position of the running routine: "loop" in the batch loop of
\* processFile, "packGLB", and the steps of parseGLBBinary; parser holds the
\* locals of parseGLBBinary; closure holds the locals of the node closure of
\* createGLBForMaterial when it is followed scan by scan; application is the
\* application state of main.js with the runs of processFile in progress
VARIABLES gltfData, glbData, pc, parser, closure, application

vars == <<gltfData, glbData, pc, parser, closure, application>>

NoClosure == [nodesToKeep |-> <<>>, previousSize |-> 0, scans |-> 0]

\* the page before a file is selected: the three variables of lines 47-49,
\* the four checkboxes, the calls of processFile in progress, the archives
\* handed to the browser, and the numbers of selections and clicks so far
NoApplication == [extractedTextures |-> <<>>, extractedMaterials |-> <<>>, originalFileName |-> <<>>, extractTextures |-> FALSE, extractMaterials |-> FALSE, autoDownloadTextures |-> FALSE, autoDownloadMaterials |-> FALSE, processFile |-> <<>>, downloads |-> {}, selections |-> 0, clicks |-> 0]

\* extractMaterialsFromGLTF returns one entry per element of gltf.materials
MaterialCount(json) == IF Has(json, "materials") THEN Len(json.materials) ELSE 0

InitGraph ==
  /\ \E meshes \in GraphMeshes, n \in 0..MaxNodes, hasNodes \in BOOLEAN :
       /\ hasNodes \/ n = 0
       /\ \E nodes \in GraphNodes(n, Len(meshes), AcyclicEdgeSets(n)), scenes \in GraphScenes(n) :
            gltfData = [json |-> GraphDocument(meshes, nodes, hasNodes, scenes),
                        binaryChunk |-> NoBinary]
  /\ glbData = <<>>
  /\ pc = "loop"
  /\ parser = NoParser
  /\ closure = NoClosure
  /\ application = NoApplication

InitMesh ==
  /\ \E materials \in MaterialTables, meshes \in MeshTables, shape \in NodeShapes :
       gltfData = [json |-> MeshDocument(materials, meshes, shape),
                   binaryChunk |-> NoBinary]
  /\ glbData = <<>>
  /\ pc = "loop"
  /\ parser = NoParser
  /\ closure = NoClosure
  /\ application = NoApplication

InitBuffer ==
  /\ \E meshes \in BufferMeshes, lengths \in SeqsUpTo(ByteLengths, MaxViews) :
       \E accessors \in BufferAccessors(Len(lengths)), isGlb \in BOOLEAN :
         gltfData = [json |-> BufferDocument(meshes, accessors, lengths),
                     binaryChunk |-> IF isGlb THEN Payload(PackedLength(lengths))
                                     ELSE NoBinary]
  /\ glbData = <<>>
  /\ pc = "loop"
  /\ parser = NoParser
  /\ closure = NoClosure
  /\ application = NoApplication

Init == InitGraph \/ InitMesh \/ InitBuffer

\* processFile after a call of createGLBForMaterial: the result is stored
\* (line 219), or the exception ends the loop in the catch of lines 249-254
AfterCall(result) ==
  /\ glbData' = IF IsException(result) THEN glbData ELSE Append(glbData, result)
  /\ pc' = IF IsException(result) THEN "aborted" ELSE "loop"

\* one iteration of the loop of processFile
ProcessMaterial ==
  /\ pc = "loop"
  /\ Len(glbData) < MaterialCount(gltfData.json)
  /\ AfterCall(createGLBForMaterial(gltfData, Len(glbData)))
  /\ gltfData' = gltfDataAfter(gltfData, Len(glbData))
  /\ UNCHANGED <<parser, closure, application>>

Next == ProcessMaterial

Spec == Init /\ [][Next]_vars

SpecGraph == InitGraph /\ [][Next]_vars

SpecMesh == InitMesh /\ [][Next]_vars

SpecBuffer == InitBuffer /\ [][Next]_vars

InitHierarchy ==
  /\ \E n \in 1..MaxTreeNodes : \E nodes \in HierarchyNodes(n) :
       gltfData = [json |-> HierarchyDocument(nodes), binaryChunk |-> NoBinary]
  /\ glbData = <<>>
  /\ pc = "loop"
  /\ parser = NoParser
  /\ closure = NoClosure
  /\ application = NoApplication

SpecHierarchy == InitHierarchy /\ [][Next]_vars

InitBatch ==
  /\ \E primitives \in BatchPrimitives, lengths \in BatchLengths, isGlb \in BOOLEAN :
       gltfData = [json |-> BatchDocument(primitives, lengths),
                   binaryChunk |-> IF isGlb THEN Payload(ChunkLength(lengths))
                                   ELSE NoBinary]
  /\ glbData = <<>>
  /\ pc = "loop"
  /\ parser = NoParser
  /\ closure = NoClosure
  /\ application = NoApplication

\* the condition of the loop of processFile (line 217): an iteration can be taken
LoopRuns == pc = "loop" /\ Len(glbData) < MaterialCount(gltfData.json)

\* The loop is synchronous, so it is not left while an iteration can be taken:
\* weak fairness of Next, with its enabling condition written as LoopRuns.
Fairness == []<>(~LoopRuns) \/ []<><<Next>>_vars

SpecBatch == InitBatch /\ [][Next]_vars /\ Fairness

\* createGLBForMaterial called for any material, in any order
ProcessAnyMaterial ==
  /\ pc = "loop"
  /\ Len(glbData) < MaxCalls
  /\ \E materialIndex \in 0..(MaterialCount(gltfData.json) - 1) :
       /\ AfterCall(createGLBForMaterial(gltfData, materialIndex))
       /\ gltfData' = gltfDataAfter(gltfData, materialIndex)
  /\ UNCHANGED <<parser, closure, application>>

NextOrder == ProcessAnyMaterial

SpecOrder == InitBatch /\ [][NextOrder]_vars

(***************************************************************************)
(* The sanitizer as the pipeline applies it: sanitizeGLTF changes the      *)
(* document in place, once at the end of createGLBForMaterial and once     *)
(* more at the start of packGLB.                                           *)
(***************************************************************************)
InitSanitizer ==
  /\ \E materials \in MaterialTables, material \in {Undef, 0, 1, 3},
        scenes \in SanitizerScenes, hasScenes \in BOOLEAN, scene \in {Undef, 0, 1, 2} :
       gltfData = [json |-> SanitizerDocument(materials, material, scenes, hasScenes, scene),
                   binaryChunk |-> NoBinary]
  /\ glbData = <<>>
  /\ pc = "sanitizeGLTF"
  /\ parser = NoParser
  /\ closure = NoClosure
  /\ application = NoApplication

\* part_000 lines 523 and 531: sanitizeGLTF(newGltf)
SanitizeBeforePacking ==
  /\ pc = "sanitizeGLTF"
  /\ gltfData' = [gltfData EXCEPT !.json = sanitizeGLTF(@)]
  /\ pc' = "packGLB:sanitizeGLTF"
  /\ UNCHANGED <<glbData, parser, closure, application>>

\* utility-functions.js line 227: sanitizeGLTF(gltf) in packGLB
SanitizeInPackGLB ==
  /\ pc = "packGLB:sanitizeGLTF"
  /\ gltfData' = [gltfData EXCEPT !.json = sanitizeGLTF(@)]
  /\ pc' = "sanitized"
  /\ UNCHANGED <<glbData, parser, closure, application>>

NextSanitizer == SanitizeBeforePacking \/ SanitizeInPackGLB

SpecSanitizer == InitSanitizer /\ [][NextSanitizer]_vars

(***************************************************************************)
(* The node closure of createGLBForMaterial (lines 264-291) scan by scan,  *)
(* for material 0 of a hierarchy: the first pass, then one forEach over    *)
(* the nodes per turn of the while loop.                                   *)
(***************************************************************************)
InitClosure ==
  /\ \E n \in 1..MaxTreeNodes : \E nodes \in HierarchyNodes(n) :
       gltfData = [json |-> HierarchyDocument(nodes), binaryChunk |-> NoBinary]
  /\ glbData = <<>>
  /\ pc = "firstPass"
  /\ parser = NoParser
  /\ closure = NoClosure
  /\ application = NoApplication

\* lines 267-273, and let previousSize = 0
FirstPass ==
  /\ pc = "firstPass"
  /\ closure' = [nodesToKeep |-> DirectNodes(gltfData.json.nodes, keptMeshIndices(gltfData.json, 0)),
                 previousSize |-> 0,
                 scans |-> 0]
  /\ pc' = "while"
  /\ UNCHANGED <<gltfData, glbData, parser, application>>

\* a loop that never finds its condition false
LoopContinuesAlways(locals) == TRUE

\* while (previousSize !== nodesToKeep.size)
LoopContinues(locals) == locals.previousSize # Len(locals.nodesToKeep)

\* lines 278-290: one turn of the loop; scans counts the turns, and a turn
\* beyond the number of nodes plus one is not followed
SecondPassScan ==
  /\ pc = "while"
  /\ LoopContinues(closure)
  /\ closure.scans <= Len(gltfData.json.nodes)
  /\ closure' = [nodesToKeep |-> ScanNodes(gltfData.json.nodes, closure.nodesToKeep, 0),
                 previousSize |-> Len(closure.nodesToKeep),
                 scans |-> closure.scans + 1]
  /\ UNCHANGED <<gltfData, glbData, pc, parser, application>>

\* the condition of line 276 is false
SecondPassEnds ==
  /\ pc = "while"
  /\ ~LoopContinues(closure)
  /\ pc' = "closed"
  /\ UNCHANGED <<gltfData, glbData, parser, closure, application>>

NextClosure == FirstPass \/ SecondPassScan \/ SecondPassEnds

\* the loop is synchronous code: it runs as long as it can
SpecClosure == InitClosure /\ [][NextClosure]_vars /\ WF_vars(NextClosure)

(***************************************************************************)
(* The page of main.js: files are selected (handleFiles), each selection   *)
(* starts a call of processFile that waits for the file to be read, the    *)
(* reads complete in any order, and the download buttons are clicked at    *)
(* any time.  parseGLTF and everything after it in processFile await       *)
(* nothing that the event loop could interleave, so a call runs from the   *)
(* completion of its read to its end in one step.                          *)
(***************************************************************************)
MaxSelections == 2

MaxClicks == 1

UpperCaseLetters == <<"A", "B", "C", "D", "E", "F", "G", "H", "I", "J", "K", "L", "M", "N", "O", "P", "Q", "R", "S", "T", "U", "V", "W", "X", "Y", "Z">>

LowerCaseLetters == <<"a", "b", "c", "d", "e", "f", "g", "h", "i", "j", "k", "l", "m", "n", "o", "p", "q", "r", "s", "t", "u", "v", "w", "x", "y", "z">>

\* String.prototype.toLowerCase on the letters A-Z
toLowerCase(name) ==
  [k \in 1..Len(name) |->
     IF \E i \in 1..26 : UpperCaseLetters[i] = name[k]
     THEN LowerCaseLetters[CHOOSE i \in 1..26 : UpperCaseLetters[i] = name[k]]
     ELSE name[k]]

endsWith(name, suffix) ==
  Len(name) >= Len(suffix) /\ SubSeq(name, Len(name) - Len(suffix) + 1, Len(name)) = suffix

\* the check of lines 113-116
IsGlbOrGltf(name) ==
  \/ endsWith(toLowerCase(name), <<".", "g", "l", "b">>)
  \/ endsWith(toLowerCase(name), <<".", "g", "l", "t", "f">>)

\* file.name.replace(/\.[^/.]+$/, ""): the last dot and what follows it are
\* removed when at least one character follows and none of them is a slash
WithoutExtension(name) ==
  LET dots == {k \in 1..(Len(name) - 1) :
                 name[k] = "." /\ \A j \in (k + 1)..Len(name) : name[j] \notin {".", "/"}}
  IN IF dots = {} THEN name ELSE SubSeq(name, 1, (CHOOSE k \in dots : TRUE) - 1)

FileMeshes == <<NamedMesh(0, <<Primitive(0, <<>>, Undef, 4), Primitive(1, <<>>, Undef, 4)>>)>>

File(name, valid, json) == [name |-> name, valid |-> valid, gltfData |-> [json |-> json, binaryChunk |-> NoBinary]]

\* a.glb: two materials and an image; b.gltf: two materials; D.GLB: neither
\* materials nor images; e.glb: not a container (parseGLTF throws); c.txt
Files ==
  {File(<<"a", ".", "g", "l", "b">>, TRUE, MeshDocument(<<TexturedMaterial, PlainMaterial(<<"matB">>)>>, FileMeshes, "perMesh")),
   File(<<"b", ".", "g", "l", "t", "f">>, TRUE, MeshDocument(<<PlainMaterial(<<"matA">>), PlainMaterial(<<"matB">>)>>, FileMeshes, "perMesh")),
   File(<<"D", ".", "G", "L", "B">>, TRUE, CodecDocument(<<"a">>, "one", "none")),
   File(<<"e", ".", "g", "l", "b">>, FALSE, CodecDocument(<<"a">>, "none", "none")),
   File(<<"c", ".", "t", "x", "t">>, FALSE, CodecDocument(<<"a">>, "none", "none"))}

\* extractTexturesFromGLTF: one entry per image (the images of these files
\* carry their data); `file` records the file the entry was extracted from
extractTexturesFromGLTF(file) ==
  LET gltf == file.gltfData.json
  IN [k \in 1..(IF Has(gltf, "images") THEN Len(gltf.images) ELSE 0) |->
        [file |-> file.name, name |-> <<"image_", Digit(k - 1)>>]]

\* extractMaterialsFromGLTF, then previewColor (lines 207-210) and glbData
\* (lines 217-221); `file` records the file the entry was extracted from
extractMaterialsFromGLTF(file) ==
  LET gltf == file.gltfData.json
  IN [k \in 1..MaterialCount(gltf) |->
        [file |-> file.name,
         name |-> MaterialNameOf(gltf, k - 1),
         index |-> k - 1,
         previewColor |-> generateColorFromIndex(k - 1),
         glbData |-> createGLBForMaterial(file.gltfData, k - 1)]]

TexturesZip(originalFileName) == originalFileName \o <<"_", "t", "e", "x", "t", "u", "r", "e", "s", ".", "z", "i", "p">>

MaterialsZip(originalFileName) == originalFileName \o <<"_", "m", "a", "t", "e", "r", "i", "a", "l", "s", ".", "z", "i", "p">>

RunsFinished(app) ==
  /\ Len(app.processFile) > 0
  /\ \A r \in 1..Len(app.processFile) : app.processFile[r].pc = "finished"

\* downloadAllTextures / downloadAllMaterials: nothing is packaged for an
\* empty list; `files` are the files the packaged entries were extracted from
Archive(app, zipFileName, entries, click) ==
  IF entries = <<>> THEN {}
  ELSE {[zipFileName |-> zipFileName,
         files |-> {entries[k].file : k \in 1..Len(entries)},
         click |-> click,
         afterRuns |-> RunsFinished(app)]}

InitApplication ==
  /\ \E doExtractTextures, doExtractMaterials, autoTextures, autoMaterials \in BOOLEAN :
       application = [NoApplication EXCEPT !.extractTextures = doExtractTextures,
                                           !.extractMaterials = doExtractMaterials,
                                           !.autoDownloadTextures = autoTextures,
                                           !.autoDownloadMaterials = autoMaterials]
  /\ gltfData = [json |-> CodecDocument(<<"a">>, "none", "none"), binaryChunk |-> NoBinary]
  /\ glbData = <<>>
  /\ pc = "page"
  /\ parser = NoParser
  /\ closure = NoClosure

\* handleFiles(files), lines 110-145
handleFiles(app, file) ==
  IF ~IsGlbOrGltf(file.name) THEN [app EXCEPT !.selections = @ + 1]
  ELSE [app EXCEPT !.selections = @ + 1,
                   !.originalFileName = WithoutExtension(file.name),
                   !.extractedTextures = <<>>,
                   !.extractedMaterials = <<>>,
                   !.processFile = Append(@, [file |-> file, pc |-> "readFileAsArrayBuffer"])]

HandleFiles ==
  /\ application.selections < MaxSelections
  /\ \E file \in Files : application' = handleFiles(application, file)
  /\ UNCHANGED <<gltfData, glbData, pc, parser, closure>>

\* processFile from the completion of readFileAsArrayBuffer to its end;
\* textures and materials are the locals of lines 177 and 201
processFile(app, r, textures, materials) ==
  LET file == app.processFile[r].file
      ended == [app EXCEPT !.processFile[r].pc = "finished"]
      storesTextures == app.extractTextures /\ Len(textures) > 0
      storesMaterials == app.extractMaterials /\ Len(materials) > 0
  IN IF ~file.valid \/ (~app.extractTextures /\ ~app.extractMaterials) THEN ended
     ELSE [ended EXCEPT
             !.extractedTextures = IF storesTextures THEN textures ELSE @,
             !.extractedMaterials = IF storesMaterials THEN materials ELSE @,
             !.downloads = @ \cup (IF storesTextures /\ app.autoDownloadTextures
                                   THEN Archive(app, TexturesZip(app.originalFileName), textures, FALSE)
                                   ELSE {})
                             \cup (IF storesMaterials /\ app.autoDownloadMaterials
                                   THEN Archive(app, MaterialsZip(app.originalFileName), materials, FALSE)
                                   ELSE {})]

FileLoaded ==
  /\ \E r \in 1..Len(application.processFile) :
       /\ application.processFile[r].pc = "readFileAsArrayBuffer"
       /\ \E textures \in {extractTexturesFromGLTF(application.processFile[r].file)},
             materials \in {extractMaterialsFromGLTF(application.processFile[r].file)} :
            application' = processFile(application, r, textures, materials)
  /\ UNCHANGED <<gltfData, glbData, pc, parser, closure>>

\* the click handler of lines 258-262
DownloadTexturesClick ==
  /\ application.clicks < MaxClicks
  /\ application' = [application EXCEPT
       !.clicks = @ + 1,
       !.downloads = @ \cup Archive(application, TexturesZip(application.originalFileName),
                                    application.extractedTextures, TRUE)]
  /\ UNCHANGED <<gltfData, glbData, pc, parser, closure>>

\* the click handler of lines 264-267
DownloadMaterialsClick ==
  /\ application.clicks < MaxClicks
  /\ application' = [application EXCEPT
       !.clicks = @ + 1,
       !.downloads = @ \cup Archive(application, MaterialsZip(application.originalFileName),
                                    application.extractedMaterials, TRUE)]
  /\ UNCHANGED <<gltfData, glbData, pc, parser, closure>>

NextApplication == HandleFiles \/ FileLoaded \/ DownloadTexturesClick \/ DownloadMaterialsClick

SpecApplication == InitApplication /\ [][NextApplication]_vars

(***************************************************************************)
(* The codec: packGLB on a document and a payload, then parseGLBBinary on  *)
(* the container, step by step; or parseGLBBinary on a foreign container.  *)
(***************************************************************************)
InitCodec ==
  /\ \E name \in CodecNames, shape \in SceneShapes, kind \in MaterialKinds,
        binaryChunk \in Payloads :
       /\ gltfData = [json |-> CodecDocument(name, shape, kind), binaryChunk |-> binaryChunk]
       /\ \/ pc = "packGLB" /\ parser = NoParser
          \/ \E variant \in ContainerVariants :
               /\ pc = "magic"
               /\ parser = ParserOf(ForeignContainer(variant, gltfData.json, binaryChunk))
  /\ glbData = <<>>
  /\ closure = NoClosure
  /\ application = NoApplication

\* the position after a step: an exception leaves the function
After(step, next) == IF step.error # "" THEN "thrown" ELSE next

Pack ==
  /\ pc = "packGLB"
  /\ parser' = ParserOf(packGLB(gltfData.json, gltfData.binaryChunk))
  /\ pc' = "magic"
  /\ UNCHANGED <<gltfData, glbData, closure, application>>

ParseMagic ==
  /\ pc = "magic"
  /\ parser' = CheckMagic(parser)
  /\ pc' = After(parser', "version")
  /\ UNCHANGED <<gltfData, glbData, closure, application>>

ParseVersion ==
  /\ pc = "version"
  /\ parser' = CheckVersion(parser)
  /\ pc' = After(parser', "jsonChunk")
  /\ UNCHANGED <<gltfData, glbData, closure, application>>

ParseJsonChunkHeader ==
  /\ pc = "jsonChunk"
  /\ parser' = ReadJsonChunkHeader(parser)
  /\ pc' = After(parser', "decode")
  /\ UNCHANGED <<gltfData, glbData, closure, application>>

ParseDecode ==
  /\ pc = "decode"
  /\ parser' = DecodeJson(parser)
  /\ pc' = After(parser', "JSON.parse")
  /\ UNCHANGED <<gltfData, glbData, closure, application>>

ParseJSON ==
  /\ pc = "JSON.parse"
  /\ parser' = ParseJson(parser)
  /\ pc' = After(parser', "binChunk")
  /\ UNCHANGED <<gltfData, glbData, closure, application>>

ParseBinChunk ==
  /\ pc = "binChunk"
  /\ parser' = ReadBinChunk(parser)
  /\ pc' = After(parser', "returned")
  /\ UNCHANGED <<gltfData, glbData, closure, application>>

NextCodec ==
  \/ Pack
  \/ ParseMagic
  \/ ParseVersion
  \/ ParseJsonChunkHeader
  \/ ParseDecode
  \/ ParseJSON
  \/ ParseBinChunk

SpecCodec == InitCodec /\ [][NextCodec]_vars

(***************************************************************************)
(* Vocabulary of the properties.                                           *)
(***************************************************************************)
Input == gltfData.json

Outputs == {glbData[k] : k \in 1..Len(glbData)}

\* the input nodes among the kept ones (the fallback node is not an input node)
KeptInputNodes(o) ==
  {n \in Range(o.nodesToKeep) : Has(Input, "nodes") /\ InRange(Input.nodes, n)}

\* the output node that stands for the kept input node n
OutputNode(o, n) == At(o.json.nodes, IndexOf(o.nodesToKeep, n))

\* the children of an input node that were kept, each at its new position
SurvivingChildren(o, n) ==
  LET surviving == SelectSeq(At(Input.nodes, n).children,
                             LAMBDA child : Contains(o.nodesToKeep, child))
  IN [k \in 1..Len(surviving) |-> IndexOf(o.nodesToKeep, surviving[k])]

\* nodes reachable from `frontier` through `children` (0-based indices)
RECURSIVE Reachable(_, _)
Reachable(nodes, frontier) ==
  LET valid == {n \in frontier : InRange(nodes, n)}
      next == valid \cup UNION {Range(At(nodes, n).children) : n \in valid}
      step == {n \in next : InRange(nodes, n)}
  IN IF step = valid THEN valid ELSE Reachable(nodes, step)

SceneRoots(gltf) ==
  IF Has(gltf, "scenes") THEN UNION {Range(gltf.scenes[k].nodes) : k \in 1..Len(gltf.scenes)}
  ELSE {}

(***************************************************************************)
(* C2: every kept input node's output `children` is its original children *)
(* restricted to the kept nodes, each replaced by the child's new position *)
(* (no undefined entry; absent exactly when no child survived).            *)
(***************************************************************************)
C2_ChildrenRemapped ==
  \A o \in Outputs : \A n \in KeptInputNodes(o) :
    OutputNode(o, n).children = SurvivingChildren(o, n)

(***************************************************************************)
(* C3: every input node that references a kept mesh and is reachable from  *)
(* a root of an input scene is, in the output, reachable from a root of an *)
(* output scene.                                                           *)
(***************************************************************************)
C3_HierarchyIntegrity ==
  \A o \in Outputs : \A n \in KeptInputNodes(o) :
    (/\ ReferencesKeptMesh(At(Input.nodes, n), o.keptMeshIndices)
     /\ n \in Reachable(Input.nodes, SceneRoots(Input)))
    => /\ Has(o.json, "nodes")
       /\ IndexOf(o.nodesToKeep, n) \in Reachable(o.json.nodes, SceneRoots(o.json))

(***************************************************************************)
(* C7: when the input has a nodes array, no node references a kept mesh    *)
(* and at least one mesh is kept, the output has one synthetic node per    *)
(* surviving mesh, the i-th referencing output mesh i, and one scene that  *)
(* lists all of them.                                                      *)
(***************************************************************************)
FallbackCase(o) ==
  /\ Has(Input, "nodes")
  /\ Len(o.keptMeshIndices) > 0
  /\ \A k \in 1..Len(Input.nodes) : ~ReferencesKeptMesh(Input.nodes[k], o.keptMeshIndices)

C7_OneNodePerMesh ==
  \A o \in Outputs :
    FallbackCase(o) =>
      /\ Has(o.json, "nodes") /\ Has(o.json, "meshes") /\ Has(o.json, "scenes")
      /\ Len(o.json.nodes) = Len(o.json.meshes)
      /\ \A k \in 1..Len(o.json.nodes) : o.json.nodes[k].mesh = k - 1
      /\ Len(o.json.scenes) = 1
      /\ Range(o.json.scenes[1].nodes) = 0..(Len(o.json.nodes) - 1)

(***************************************************************************)
(* C8: in every output, `scene` is 0 and scenes[0] exists, or `scene` and  *)
(* `scenes` are both absent.                                               *)
(***************************************************************************)
C8_SceneIndexValid ==
  \A o \in Outputs :
    \/ /\ o.json.scene = 0
       /\ Has(o.json, "scenes") /\ Len(o.json.scenes) > 0
       /\ ~IsEmptyScene(o.json.scenes[1])
    \/ o.json.scene = Undef /\ ~Has(o.json, "scenes")

(***************************************************************************)
(* C1: in every output, every accessor index in a primitive's attributes   *)
(* or `indices` is an index into the output accessors array.               *)
(***************************************************************************)
AccessorRefs(primitive) ==
  Range(primitive.attributes)
  \cup (IF primitive.indices # Undef THEN {primitive.indices} ELSE {})

OutputPrimitives(o) ==
  UNION {Range(o.json.meshes[k].primitives) : k \in 1..Len(o.json.meshes)}

C1_AccessorRefsValid ==
  \A o \in Outputs : \A primitive \in OutputPrimitives(o) :
    \A index \in AccessorRefs(primitive) :
      /\ Has(o.json, "accessors")
      /\ InRange(o.json.accessors, index)
      /\ ~IsEmptyAccessor(At(o.json.accessors, index))

\* an output whose first kept accessor was accessor 1 of the input, under two
\* parents that share a child and beside a mesh without a matching primitive
C1_Witness ==
  \E o \in Outputs :
    /\ Len(o.usedAccessors) > 0 /\ o.usedAccessors[1] = 1
    /\ \E primitive \in OutputPrimitives(o) : 0 \in AccessorRefs(primitive)
    /\ Len(o.keptMeshIndices) < Len(Input.meshes)
    /\ \E a, b \in 1..Len(Input.nodes) :
         a # b /\ Range(Input.nodes[a].children) \cap Range(Input.nodes[b].children) # {}

(***************************************************************************)
(* C4: in every output, every accessor.bufferView is an index into the     *)
(* output bufferViews and every bufferView.buffer is an index into the     *)
(* output buffers.                                                         *)
(***************************************************************************)
C4_BufferRefsValid ==
  \A o \in Outputs :
    /\ \A k \in 1..Len(o.json.accessors) :
         o.json.accessors[k].bufferView # Undef
         => /\ Has(o.json, "bufferViews")
            /\ InRange(o.json.bufferViews, o.json.accessors[k].bufferView)
    /\ \A k \in 1..Len(o.json.bufferViews) :
         /\ Has(o.json, "buffers")
         /\ InRange(o.json.buffers, o.json.bufferViews[k].buffer)

(***************************************************************************)
(* C5: an output node's `mesh` is an index into the output meshes and      *)
(* names the filtered copy of the mesh the node referenced; a node whose   *)
(* mesh was not kept has no `mesh`; every entry of an output scene is an   *)
(* index into the output nodes, and in a scene rewritten from an input     *)
(* scene it is the new position of a kept root of that scene.              *)
(***************************************************************************)
InputSceneNamed(name) ==
  CHOOSE scene \in Range(Input.scenes) : scene.name = name

C5_NodeAndSceneRefsValid ==
  \A o \in Outputs :
    /\ \A k \in 1..Len(o.json.nodes) :
         o.json.nodes[k].mesh # Undef
         => Has(o.json, "meshes") /\ InRange(o.json.meshes, o.json.nodes[k].mesh)
    /\ \A n \in KeptInputNodes(o) :
         IF ReferencesKeptMesh(At(Input.nodes, n), o.keptMeshIndices)
         THEN /\ OutputNode(o, n).mesh # Undef
              /\ At(o.json.meshes, OutputNode(o, n).mesh).name
                   = At(Input.meshes, At(Input.nodes, n).mesh).name
         ELSE OutputNode(o, n).mesh = Undef
    /\ \A k \in 1..Len(o.json.scenes) : \A e \in Range(o.json.scenes[k].nodes) :
         /\ Has(o.json, "nodes") /\ InRange(o.json.nodes, e)
         /\ o.json.scenes[k].name # <<>>
            => /\ \E scene \in Range(Input.scenes) : scene.name = o.json.scenes[k].name
               /\ \E root \in Range(InputSceneNamed(o.json.scenes[k].name).nodes) :
                    Contains(o.nodesToKeep, root) /\ IndexOf(o.nodesToKeep, root) = e

\* a kept node whose mesh moved from 1 to 0, a kept ancestor whose own mesh was
\* filtered out, and a rewritten scene whose root moved to another position
C5_Witness ==
  \E o \in Outputs :
    /\ \E n \in KeptInputNodes(o) :
         At(Input.nodes, n).mesh = 1 /\ OutputNode(o, n).mesh = 0
    /\ \E n \in KeptInputNodes(o) :
         At(Input.nodes, n).mesh = 0 /\ OutputNode(o, n).mesh = Undef
    /\ \E k \in 1..Len(o.json.scenes) :
         /\ o.json.scenes[k].name # <<>>
         /\ o.json.scenes[k].nodes # InputSceneNamed(o.json.scenes[k].name).nodes

(***************************************************************************)
(* C6: the output meshes are exactly the input meshes with a primitive of  *)
(* the extracted material, in their original order, each with exactly its  *)
(* primitives of that material, in order, with `material` 0.               *)
(***************************************************************************)
MatchingPrimitives(mesh, m) ==
  SortedSeq({j \in 1..Len(mesh.primitives) : mesh.primitives[j].material = m})

MatchingMeshes(m) ==
  SortedSeq({k \in 1..Len(Input.meshes) : MatchingPrimitives(Input.meshes[k], m) # <<>>})

C6_MeshesFiltered ==
  \A o \in Outputs :
    LET expected == MatchingMeshes(o.materialIndex)
    IN /\ Len(o.json.meshes) = Len(expected)
       /\ Has(o.json, "meshes") <=> expected # <<>>
       /\ \A k \in 1..Len(expected) :
            LET source == Input.meshes[expected[k]]
                matching == MatchingPrimitives(source, o.materialIndex)
                result == o.json.meshes[k]
            IN /\ result.name = source.name
               /\ Len(result.primitives) = Len(matching)
               /\ \A j \in 1..Len(matching) :
                    /\ result.primitives[j].material = 0
                    /\ result.primitives[j].mode = source.primitives[matching[j]].mode
                    /\ Len(result.primitives[j].attributes)
                         = Len(source.primitives[matching[j]].attributes)

\* mesh 0 with primitives of materials 0 and 1, meshes 1 and 2 of material 1
\* only, one node per mesh: material 0 gives one mesh of one primitive, one
\* node and one scene
C6_Witness ==
  /\ Len(Input.meshes) = 3
  /\ Len(Input.meshes[1].primitives) = 2
  /\ [j \in 1..2 |-> Input.meshes[1].primitives[j].material] = <<0, 1>>
  /\ \A k \in 2..3 :
       Len(Input.meshes[k].primitives) = 1 /\ Input.meshes[k].primitives[1].material = 1
  /\ Len(Input.nodes) = 3
  /\ \E o \in Outputs :
       /\ o.materialIndex = 0
       /\ Len(o.json.meshes) = 1 /\ Len(o.json.meshes[1].primitives) = 1
       /\ Len(o.json.nodes) = 1 /\ o.json.nodes[1].mesh = 0
       /\ Len(o.json.scenes) = 1 /\ o.json.scenes[1].nodes = <<0>>

(***************************************************************************)
(* C9: every output has exactly one material, which has no texture         *)
(* reference and no extensions, and no textures, images or samplers.       *)
(***************************************************************************)
C9_SingleSyntheticMaterial ==
  \A o \in Outputs :
    /\ Has(o.json, "materials") /\ Len(o.json.materials) = 1
    /\ o.json.materials[1].baseColorTexture = Undef
    /\ o.json.materials[1].extensions = FALSE
    /\ {"textures", "images", "samplers"} \cap o.json.has = {}
    /\ o.json.textures = <<>> /\ o.json.images = <<>> /\ o.json.samplers = <<>>

\* the output for a material that had a texture and extensions, from a document
\* that had textures, images and samplers
C9_Witness ==
  /\ Input.materials[1].baseColorTexture # Undef /\ Input.materials[1].extensions
  /\ {"textures", "images", "samplers"} \subseteq Input.has
  /\ \E o \in Outputs : o.materialIndex = 0 /\ Len(o.json.meshes) > 0

(***************************************************************************)
(* C10: in the compactor's output every byteOffset is a multiple of 4, the *)
(* byte ranges of distinct views do not overlap, each offset is the end of *)
(* the previous view rounded up to a multiple of 4 (the first is 0), and   *)
(* buffers[0].byteLength is the end of the last view.                      *)
(***************************************************************************)
RoundUp4(n) == ((n + 3) \div 4) * 4

ViewEnd(bufferView) == bufferView.byteOffset + bufferView.byteLength

C10_CompactLayout ==
  \A o \in Outputs :
    o.compacted =>
      LET views == o.json.bufferViews
      IN /\ Has(o.json, "bufferViews") /\ Len(views) = Len(o.usedBufferViews)
         /\ \A k \in 1..Len(views) : views[k].byteOffset % 4 = 0
         /\ \A j, k \in 1..Len(views) :
              j < k => \/ ViewEnd(views[j]) <= views[k].byteOffset
                       \/ ViewEnd(views[k]) <= views[j].byteOffset
         /\ views[1].byteOffset = 0
         /\ \A k \in 2..Len(views) : views[k].byteOffset = RoundUp4(ViewEnd(views[k - 1]))
         /\ Has(o.json, "buffers") /\ Len(o.json.buffers) = 1
         /\ o.json.buffers[1].byteLength = ViewEnd(views[Len(views)])
         /\ Len(o.binaryChunk.bytes) = ViewEnd(views[Len(views)])

\* a view of 7 bytes followed by one of 10: the second is placed at offset 8
C10_Witness ==
  \E o \in Outputs :
    /\ o.compacted
    /\ Len(o.json.bufferViews) = 2
    /\ o.json.bufferViews[1].byteLength = 7 /\ o.json.bufferViews[2].byteLength = 10
    /\ o.json.bufferViews[2].byteOffset = 8

(***************************************************************************)
(* Vocabulary of the codec properties.                                     *)
(***************************************************************************)
ParseEnded == pc \in {"returned", "thrown"}

\* the container being parsed is the one packGLB makes of gltfData
IsPacked == parser.arrayBuffer = packGLB(gltfData.json, gltfData.binaryChunk)

\* the JSON text of the packed document, encoded
PackedJsonBuffer == TextEncode(gltfString(gltfData.json))

(***************************************************************************)
(* C11: parseGLBBinary(packGLB(d, b)) returns, its document is the         *)
(* sanitized d (with the asset stamp of packGLB) and its payload is b,     *)
(* whatever the lengths of the JSON text and of the payload.               *)
(***************************************************************************)
C11_RoundTrip ==
  (ParseEnded /\ IsPacked)
  => /\ pc = "returned"
     /\ parser.gltf = DocumentJSON(sanitizeGLTF(gltfData.json), PackAsset)
     /\ parser.binaryChunk = gltfData.binaryChunk

(***************************************************************************)
(* C12: in a container made by packGLB the JSON chunk's length is a        *)
(* multiple of 4 and every byte after the JSON text in the chunk is the    *)
(* space 0x20.                                                             *)
(***************************************************************************)
C12_JsonPaddedWithSpaces ==
  IsPacked
  => LET chunkLength == getUint32(parser.arrayBuffer, headerLength)
         textLength == Len(PackedJsonBuffer)
         chunkStart == headerLength + jsonChunkHeaderLength
     IN /\ chunkLength % 4 = 0
        /\ \A k \in (textLength + 1)..chunkLength :
             parser.arrayBuffer[chunkStart + k] = CharCode(" ")

(***************************************************************************)
(* C13: a container made by packGLB is 12 + 8 + padded JSON length bytes   *)
(* long, plus 8 + padded payload length when the payload is present and    *)
(* not empty; its length field says so; both padded lengths are multiples  *)
(* of 4; it holds one JSON chunk, and a BIN chunk exactly when the payload *)
(* is present and not empty.                                               *)
(***************************************************************************)
\* the chunks of a container, read from `offset` on: <<type, length>> each
RECURSIVE ChunksFrom(_, _)
ChunksFrom(bytes, offset) ==
  IF offset + 8 > Len(bytes) THEN <<>>
  ELSE <<<<getUint32(bytes, offset + 4), getUint32(bytes, offset)>>>>
       \o ChunksFrom(bytes, offset + 8 + getUint32(bytes, offset))

C13_ContainerLength ==
  IsPacked
  => LET bytes == parser.arrayBuffer
         payload == gltfData.binaryChunk
         nonEmpty == payload.present /\ Len(payload.bytes) > 0
         paddedJson == RoundUp4(Len(PackedJsonBuffer))
         paddedBin == RoundUp4(Len(payload.bytes))
     IN /\ Len(bytes) = 12 + 8 + paddedJson + (IF nonEmpty THEN 8 + paddedBin ELSE 0)
        /\ getUint32(bytes, 8) = Len(bytes)
        /\ ChunksFrom(bytes, 12)
             = IF nonEmpty
               THEN <<<<JsonChunkType, paddedJson>>, <<BinChunkType, paddedBin>>>>
               ELSE <<<<JsonChunkType, paddedJson>>>>

\* a container whose JSON text and payload both need padding
C13_Witness ==
  /\ IsPacked
  /\ Len(PackedJsonBuffer) % 4 = 1
  /\ gltfData.binaryChunk.present /\ Len(gltfData.binaryChunk.bytes) = 5
  /\ Len(ChunksFrom(parser.arrayBuffer, 12)) = 2

(***************************************************************************)
(* C14: a container whose magic is not 0x46546C67 makes parseGLBBinary     *)
(* throw at the magic, with no chunk header read, nothing decoded, nothing *)
(* parsed and no document; a first chunk that is not JSON makes it throw   *)
(* before the chunk is decoded.                                            *)
(***************************************************************************)
HasBadMagic ==
  ~OutOfBounds(parser.arrayBuffer, 0) /\ getUint32(parser.arrayBuffer, 0) # Magic

HasBadFirstChunk ==
  /\ ~OutOfBounds(parser.arrayBuffer, 16)
  /\ getUint32(parser.arrayBuffer, 0) = Magic
  /\ getUint32(parser.arrayBuffer, 16) # JsonChunkType

C14_BadMagicFailsFirst ==
  /\ HasBadMagic
     => /\ pc \in {"magic", "thrown"}
        /\ pc = "thrown" => parser.error = "Incorrect magic number"
        /\ parser.chunkHeadersRead = 0 /\ ~parser.decoded /\ ~parser.parsed
        /\ parser.gltf = JNull
  /\ HasBadFirstChunk
     => /\ pc \in {"magic", "version", "jsonChunk", "thrown"}
        /\ pc = "thrown" => parser.error = "First chunk is not JSON"
        /\ ~parser.decoded /\ ~parser.parsed
        /\ parser.gltf = JNull

\* the parser has thrown at the magic of a container that is otherwise complete
C14_Witness ==
  /\ pc = "thrown" /\ parser.error = "Incorrect magic number"
  /\ Len(ChunksFrom(parser.arrayBuffer, 12)) = 2

(***************************************************************************)
(* C15: a container whose version is not 2, or whose second chunk has an   *)
(* unknown type, is decoded: the parser returns the document and a warning *)
(* is logged; the unknown chunk is skipped and no payload is returned.     *)
(***************************************************************************)
IsForeign(variant) ==
  parser.arrayBuffer = ForeignContainer(variant, gltfData.json, gltfData.binaryChunk)

C15_WarningsNotFatal ==
  /\ (ParseEnded /\ IsForeign("version3"))
     => /\ pc = "returned"
        /\ "Unsupported GLB version" \in parser.warnings
        /\ parser.gltf = DocumentJSON(gltfData.json, PackAsset)
        /\ HasBinChunk(gltfData.binaryChunk)
           => parser.binaryChunk.present
              /\ SubSeq(parser.binaryChunk.bytes, 1, Len(gltfData.binaryChunk.bytes))
                   = gltfData.binaryChunk.bytes
  /\ (ParseEnded /\ IsForeign("unknownChunk") /\ HasBinChunk(gltfData.binaryChunk))
     => /\ pc = "returned"
        /\ "Unknown chunk type" \in parser.warnings
        /\ parser.gltf = DocumentJSON(gltfData.json, PackAsset)
        /\ parser.binaryChunk = NoBinary

\* the parser has returned from a container with an unknown second chunk
C15_Witness ==
  /\ pc = "returned"
  /\ IsForeign("unknownChunk") /\ HasBinChunk(gltfData.binaryChunk)
  /\ parser.chunkHeadersRead = 2

(***************************************************************************)
(* C16: running createGLBForMaterial again, for material index 0, on the   *)
(* document and payload it produced for any material index gives the same  *)
(* document back.                                                          *)
(***************************************************************************)
Rerun(output) ==
  createGLBForMaterial([json |-> output.json, binaryChunk |-> output.binaryChunk], 0)

C16_Idempotent ==
  \A output \in Outputs : Rerun(output).json = output.json

Damaged(materialIndex) ==
  /\ gltfData.binaryChunk.present
  /\ \E mesh \in Range(Input.meshes) : \E primitive \in Range(mesh.primitives) :
       /\ primitive.material = materialIndex
       /\ \E a \in Range(primitive.attributes) :
            At(Input.bufferViews, At(Input.accessors, a).bufferView).byteLength < 0

LoopCompleted == pc = "loop" /\ Len(glbData) = MaterialCount(Input)

\* the loop has ended with one result per material, null for a damaged one only
Isolated ==
  /\ LoopCompleted
  /\ \A k \in 1..Len(glbData) :
       /\ glbData[k].materialIndex = k - 1
       /\ IsNull(glbData[k]) <=> Damaged(k - 1)
       /\ ~IsNull(glbData[k]) => glbData[k] = TryBlock(gltfData, k - 1)

C18_IsolateAndContinue == <>Isolated

\* the first material failed and the second one was processed after it
C18_Witness ==
  /\ LoopCompleted
  /\ Len(glbData) = 2
  /\ IsNull(glbData[1]) /\ ~IsNull(glbData[2])
  /\ glbData[2].compacted

(***************************************************************************)
(* C19: when no primitive of the input uses the material, the call returns *)
(* a container and its document has no mesh, no node, no accessor and no   *)
(* buffer view.                                                            *)
(***************************************************************************)
UsedByNoPrimitive(materialIndex) ==
  \A mesh \in Range(Input.meshes) : \A primitive \in Range(mesh.primitives) :
    primitive.material # materialIndex

Count(json, key) == IF Has(json, key) THEN Len(json[key]) ELSE 0

C19_UnusedMaterialEmpty ==
  \A output \in Outputs :
    UsedByNoPrimitive(output.materialIndex)
    => /\ ~IsNull(output)
       /\ Count(output.json, "meshes") = 0
       /\ Count(output.json, "nodes") = 0
       /\ Count(output.json, "accessors") = 0
       /\ Count(output.json, "bufferViews") = 0

(***************************************************************************)
(* C20: when no buffer view is kept for the material, the container has no *)
(* BIN chunk and the document in it has a `buffers` key whose value is an  *)
(* empty array.                                                            *)
(***************************************************************************)
C20_NoViewsEmptyBuffers ==
  \A output \in Outputs :
    (~IsNull(output) /\ output.usedBufferViews = <<>>)
    => /\ ~HasBinChunk(output.binaryChunk)
       /\ Has(output.json, "buffers")
       /\ output.json.buffers = <<>>

(***************************************************************************)
(* C21: sanitizeGLTF applied to a document it has already sanitized        *)
(* changes nothing: the second application, in packGLB, is a no-op.        *)
(***************************************************************************)
C21_SanitizeIdempotent ==
  [][pc = "packGLB:sanitizeGLTF" => gltfData'.json = gltfData.json]_vars

(***************************************************************************)
(* C22: the nodes kept are exactly the nodes whose mesh is kept or that    *)
(* have a descendant through `children` whose mesh is kept, also when a    *)
(* node has several parents; and they are the nodes a walk from the nodes  *)
(* with a kept mesh up a parent map reaches.                               *)
(***************************************************************************)
NodeIndices == 0..(Len(Input.nodes) - 1)

HasKeptMesh(o, n) == ReferencesKeptMesh(At(Input.nodes, n), o.keptMeshIndices)

\* the parent map: the nodes that list c among their children
ParentsOf(c) == {p \in NodeIndices : c \in Range(At(Input.nodes, p).children)}

RECURSIVE BottomUp(_)
BottomUp(marked) ==
  LET next == marked \cup UNION {ParentsOf(c) : c \in marked}
  IN IF next = marked THEN marked ELSE BottomUp(next)

C22_AncestorClosure ==
  \A o \in Outputs :
    LET selected == Range(SelectedNodes(Input.nodes, o.keptMeshIndices))
    IN /\ selected = {n \in NodeIndices :
                        \E d \in Reachable(Input.nodes, {n}) : HasKeptMesh(o, d)}
       /\ selected = BottomUp({n \in NodeIndices : HasKeptMesh(o, n)})
       /\ ~FallbackCase(o) => Range(o.nodesToKeep) = selected

\* a node kept through a grandchild only, whose child has a second parent
C22_Witness ==
  \E o \in Outputs : \E n, c, d, p \in NodeIndices :
    /\ Cardinality({n, c, d}) = 3 /\ p # n
    /\ c \in Range(At(Input.nodes, n).children) /\ d \in Range(At(Input.nodes, c).children)
    /\ d \in Range(At(Input.nodes, p).children)
    /\ HasKeptMesh(o, d) /\ ~HasKeptMesh(o, c) /\ ~HasKeptMesh(o, n)
    /\ n \in Range(o.nodesToKeep)

(***************************************************************************)
(* C23: in the compactor's output the bytes of every kept buffer view are  *)
(* the bytes the view had in the input payload, from its byteOffset (0     *)
(* when absent) for byteLength bytes, now at its new offset; every other   *)
(* byte of the output payload is zero.                                     *)
(***************************************************************************)
\* the input view behind the k-th output view
OriginalView(o, k) == At(Input.bufferViews, o.usedBufferViews[k])

OriginalStart(bufferView) == IF "byteOffset" \in DOMAIN bufferView /\ bufferView.byteOffset # Undef THEN bufferView.byteOffset ELSE 0

\* the positions (0-based) of the output payload that the k-th view occupies
Region(o, k) ==
  LET view == o.json.bufferViews[k]
  IN view.byteOffset..(view.byteOffset + view.byteLength - 1)

C23_BytesRepacked ==
  \A o \in Outputs :
    o.compacted =>
      LET output == o.binaryChunk.bytes
          input == gltfData.binaryChunk.bytes
          views == o.json.bufferViews
      IN /\ \A k \in 1..Len(views) :
              /\ views[k].byteLength = OriginalView(o, k).byteLength
              /\ \A i \in 0..(views[k].byteLength - 1) :
                   /\ views[k].byteOffset + i < Len(output)
                   /\ OriginalStart(OriginalView(o, k)) + i < Len(input)
                   /\ At(output, views[k].byteOffset + i)
                        = At(input, OriginalStart(OriginalView(o, k)) + i)
         /\ \A p \in 0..(Len(output) - 1) :
              (\A k \in 1..Len(views) : p \notin Region(o, k)) => At(output, p) = 0

\* two kept views, the first without byteOffset, the second moved from 7 to
\* 8, and the byte between them zero
C23_Witness ==
  \E o \in Outputs :
    /\ o.compacted
    /\ Len(o.json.bufferViews) = 2
    /\ OriginalView(o, 1).byteOffset = Undef
    /\ OriginalView(o, 2).byteOffset = 7 /\ o.json.bufferViews[2].byteOffset = 8
    /\ At(o.binaryChunk.bytes, 7) = 0
    /\ At(o.binaryChunk.bytes, 8) = At(gltfData.binaryChunk.bytes, 7)

(***************************************************************************)
(* C24: after the scenes are rewritten, the scenes array holds the input   *)
(* scenes that list at least one kept node, in their order, and no scene   *)
(* without nodes; when there is no such scene, or the input had no scene,  *)
(* it holds exactly one new scene, which lists every kept node once, the   *)
(* fallback node included.                                                 *)
(***************************************************************************)
\* newGltf.scenes after line 375
ScenesAfterRewrite(o) == PruneGraph(Input, o.materialIndex).scenes

InputScenes == IF Has(Input, "scenes") THEN Input.scenes ELSE <<>>

HasSurvivingRoot(o, scene) == \E root \in Range(scene.nodes) : root \in Range(o.nodesToKeep)

SurvivingScenes(o) == SelectSeq(InputScenes, LAMBDA scene : HasSurvivingRoot(o, scene))

NewNodeIndex(o, n) ==
  CHOOSE k \in 0..(Len(o.json.nodes) - 1) : At(o.json.nodes, k).name = At(Input.nodes, n).name

C25_NodesInOriginalOrder ==
  \A o \in Outputs : \A i, j \in KeptInputNodes(o) :
    i < j => NewNodeIndex(o, i) < NewNodeIndex(o, j)

(***************************************************************************)
(* C26: the kept accessors stand in the output accessors array in their    *)
(* input order, whatever the order in which the primitives name them.      *)
(***************************************************************************)
\* the place in the output accessors array of the accessor that has the name
\* of the input accessor a (the names of the input accessors are all different)
NewAccessorIndex(o, a) ==
  CHOOSE k \in 0..(Len(o.json.accessors) - 1) :
    At(o.json.accessors, k).name = At(Input.accessors, a).name

C26_AccessorsInOriginalOrder ==
  \A o \in Outputs :
    Has(Input, "accessors") /\ Len(o.usedAccessors) > 0 =>
      \A i, j \in Range(o.usedAccessors) :
        i < j => NewAccessorIndex(o, i) < NewAccessorIndex(o, j)

(***************************************************************************)
(* C27: the loop that adds the ancestors terminates on every nodes array,  *)
(* also when `children` holds cycles, self-references or indices past the  *)
(* end of the array, after at most as many scans as there are nodes.       *)
(***************************************************************************)
LoopClosed == pc = "closed"

ScansBounded == closure.scans <= Len(gltfData.json.nodes)

C27_ClosureLoopTerminates == []ScansBounded /\ <>LoopClosed

HasCycle(nodes) ==
  \E n, c \in 0..(Len(nodes) - 1) :
    n # c /\ c \in Range(At(nodes, n).children) /\ n \in Range(At(nodes, c).children)

\* the loop has ended on a hierarchy with a cycle after a scan that added a
\* node and a scan that added none
C27_Witness ==
  /\ LoopClosed
  /\ HasCycle(gltfData.json.nodes)
  /\ closure.scans = 2
  /\ closure.nodesToKeep = SelectedNodes(gltfData.json.nodes, keptMeshIndices(gltfData.json, 0))

(***************************************************************************)
(* C28: in every output that has a mesh, every mesh is the `mesh` of a     *)
(* node that is a root of scene 0 or is reachable from one through         *)
(* `children`.                                                             *)
(***************************************************************************)
SceneZeroRoots(gltf) ==
  IF Has(gltf, "scenes") /\ Len(gltf.scenes) > 0 THEN Range(gltf.scenes[1].nodes) ELSE {}

NodesOfSceneZero(gltf) ==
  IF Has(gltf, "nodes") THEN Reachable(gltf.nodes, SceneZeroRoots(gltf)) ELSE {}

C28_EveryMeshRooted ==
  \A o \in Outputs :
    Has(o.json, "meshes") =>
      \A mesh \in 0..(Len(o.json.meshes) - 1) :
        \E n \in NodesOfSceneZero(o.json) : At(o.json.nodes, n).mesh = mesh

(***************************************************************************)
(* C29: parseGLBBinary ends with the error 'JSON chunk contains invalid    *)
(* JSON' only when the text of the document chunk does not parse; valid    *)
(* text followed by fewer bytes than a chunk header is not such an error.  *)
(***************************************************************************)
ReportsInvalidJson == pc = "thrown" /\ parser.error = "JSON chunk contains invalid JSON"

C29_InvalidJsonOnlyForBadText == ReportsInvalidJson => ~JSONParse(parser.jsonText).ok

(***************************************************************************)
(* C30: whenever every call of processFile has finished, the stored        *)
(* textures and materials were extracted from the file that                *)
(* originalFileName names, and an archive made by a click on a download    *)
(* button at such a moment holds entries of the file its name is made of.  *)
(***************************************************************************)
ExtractedFrom(entries) == {WithoutExtension(entries[k].file) : k \in 1..Len(entries)}

C30_StoredResultsMatchFileName ==
  RunsFinished(application) =>
    /\ ExtractedFrom(application.extractedTextures) \subseteq {application.originalFileName}
    /\ ExtractedFrom(application.extractedMaterials) \subseteq {application.originalFileName}
    /\ \A archive \in application.downloads :
         archive.click /\ archive.afterRuns =>
           \A file \in archive.files :
             archive.zipFileName \in {TexturesZip(WithoutExtension(file)),
                                      MaterialsZip(WithoutExtension(file))}

====
